---- MODULE Spec2Model ----
(***************************************************************************)
(* A model of the PDF assistant's vector store (utils/vector_store.py), of *)
(* the HTTP handlers that drive it (app/routes.py), of the RAG engine over *)
(* it (utils/rag.py) and of the chunker (utils/pdf_parser.py).             *)
(*                                                                         *)
(* Python values are modelled as follows.                                  *)
(*   - a list and a str are both sequences; a str is the sequence of its   *)
(*     characters (len() and [] behave alike on both);                     *)
(*   - a dict keyed by ids is a function whose DOMAIN is the key set;      *)
(*   - an optional value (None or v) is <<>> or <<v>>;                     *)
(*   - index positions are 0-based as in the code, so doc_ids[i] of the    *)
(*     code is doc_ids[i + 1] here.                                        *)
(***************************************************************************)
EXTENDS Integers, Sequences, FiniteSets, TLC

VARIABLES
    documents,    \* VectorStore.documents : doc_id -> record
    doc_ids,      \* VectorStore.doc_ids   : one doc_id per indexed vector
    index,        \* VectorStore.index     : the vectors of the IndexFlatL2
    disk,         \* the file at store_path
    cache,        \* the files under cache/embeddings (keys of cached texts)
    now,          \* the clock read by time.time()
    alive,        \* the serving process is running
    ret,          \* what the last call returned (or how it ended)
    removed,      \* history: ids removed with result True and not added since
    crash,        \* history: the stores around a save() the process died in
    faults,       \* history: how many writes of the store file went wrong
    chunker,      \* the locals of the running split_into_chunks call
    processor,    \* the running PDFProcessor._process_pdf_multithreaded call
    threads       \* the request threads inside upload_file

vars == <<documents, doc_ids, index, disk, cache, now, alive, ret,
          removed, crash, faults, chunker, processor, threads>>

-----------------------------------------------------------------------------
(* Bounds of the model. *)

MaxIndex == 2      \* index.ntotal never exceeds this
MaxFaults == 1     \* writes of the store file that fail or are cut short
MaxTopK == 2       \* top_k values tried by search
MaxThreshold == 1  \* distance thresholds tried by search
MaxTime == 2       \* readings of the clock

(* Dimension of the index (384 in the code, scaled down). *)
Dimension == 2

DocIds == {"A", "B"}
Coord == {0, 1}

None == <<>>
Some(v) == <<v>>

Min(a, b) == IF a <= b THEN a ELSE b

(* The points queries are drawn from. *)
Points == [1..Dimension -> Coord]

(* The embedding model: the vector of each chunk text (unit vectors), and  *)
(* a vector of a wrong dimension.                                          *)
Embed(c) == [j \in 1..Dimension |-> IF (c = "cats") = (j = 1) THEN 1 ELSE 0]
BadVector == [j \in 1..(Dimension + 1) |-> 0]

EmptyDocs == [d \in {} |-> 0]

-----------------------------------------------------------------------------
(* faiss.IndexFlatL2 *)

RECURSIVE SumSq(_, _, _)
SumSq(u, v, j) ==
    IF j = 0 THEN 0
    ELSE (u[j] - v[j]) * (u[j] - v[j]) + SumSq(u, v, j - 1)

(* Squared Euclidean distance. *)
L2(u, v) == SumSq(u, v, Dimension)

(* index.search with equally distant vectors in the reverse of their       *)
(* insertion order.                                                        *)
MutRankTiesLast(ix, q, i) ==
    Cardinality({j \in 1..Len(ix) :
                    \/ L2(ix[j], q) < L2(ix[i], q)
                    \/ L2(ix[j], q) = L2(ix[i], q) /\ j > i})

(* Number of stored vectors that precede position i (1-based) in the       *)
(* result order: nearer ones, and equally near ones stored earlier.        *)
Rank(ix, q, i) ==
    Cardinality({j \in 1..Len(ix) :
                    \/ L2(ix[j], q) < L2(ix[i], q)
                    \/ L2(ix[j], q) = L2(ix[i], q) /\ j < i})

(* index.search(q, k): the k nearest stored vectors, nearest first, as     *)
(* parallel (distance, 0-based position) pairs.                            *)
IndexSearch(ix, q, k) ==
    [r \in 1..k |->
        LET i == CHOOSE i \in 1..Len(ix) : Rank(ix, q, i) = r - 1
        IN  [idx |-> i - 1, dist |-> L2(ix[i], q)]]

(* np.array(embeddings).astype('float32') followed by index.add: succeeds  *)
(* on a non-empty list of vectors of the index's dimension, and raises on  *)
(* anything else (a dict, an empty list, a wrong or ragged dimension).     *)
IndexAddable(embeddings) ==
    /\ embeddings.kind = "list"
    /\ embeddings.vecs # <<>>
    /\ \A i \in 1..Len(embeddings.vecs) : Len(embeddings.vecs[i]) = Dimension

ListOf(vecs) == [kind |-> "list", vecs |-> vecs]
DictValue == [kind |-> "dict", vecs |-> <<>>]

(* faiss.serialize_index / deserialize_index: the header and the flat      *)
(* array of codes.                                                         *)
SerializeIndex(ix) ==
    [d |-> Dimension,
     ntotal |-> Len(ix),
     codes |-> [p \in 1..(Len(ix) * Dimension) |->
                   ix[((p - 1) \div Dimension) + 1][((p - 1) % Dimension) + 1]]]

(* A plausible slip: the codes are read column by column. *)
MutDeserializeTransposed(b) ==
    [i \in 1..b.ntotal |-> [j \in 1..b.d |-> b.codes[(j - 1) * b.ntotal + i]]]

DeserializeIndex(b) ==
    [i \in 1..b.ntotal |-> [j \in 1..b.d |-> b.codes[(i - 1) * b.d + j]]]

-----------------------------------------------------------------------------
(* The file at store_path. *)

MissingFile ==
    [kind |-> "missing", documents |-> EmptyDocs, doc_ids |-> <<>>,
     index |-> SerializeIndex(<<>>)]

(* A file that open(..., 'wb') has truncated and pickle.dump has not       *)
(* completed: pickle.load raises on every such file.                       *)
PartialFile ==
    [kind |-> "partial", documents |-> EmptyDocs, doc_ids |-> <<>>,
     index |-> SerializeIndex(<<>>)]

(* A plausible slip: the id-lookup sequence is left out of the dump. *)
MutStoreFileNoIds(docs, ids, ix) ==
    [kind |-> "store", documents |-> docs, doc_ids |-> <<>>,
     index |-> SerializeIndex(ix)]

(* The pickled dict {'documents', 'doc_ids', 'index'}. *)
StoreFile(docs, ids, ix) ==
    [kind |-> "store", documents |-> docs, doc_ids |-> ids,
     index |-> SerializeIndex(ix)]

(* How a write of the store file can end. *)
ReturnOutcomes == {"ok", "open_fail", "dump_fail"}
WriteOutcomes == ReturnOutcomes \cup {"crash"}

(* save(): open(store_path, 'wb') truncates the file, pickle.dump writes   *)
(* it; an exception is logged and swallowed.                               *)
(*   ok        : the dump completes;                                       *)
(*   open_fail : open raises, the file is untouched;                       *)
(*   dump_fail : the dump raises after the file was truncated;             *)
(*   crash     : the process stops after the file was truncated.           *)
SaveEffect(dk, docs, ids, ix, w) ==
    CASE w = "ok" -> StoreFile(docs, ids, ix)
      [] w = "open_fail" -> dk
      [] OTHER -> PartialFile

StoreOf(docs, ids, ix) == [documents |-> docs, doc_ids |-> ids, index |-> ix]

(* load(): no file -> nothing changes; a readable file replaces documents, *)
(* doc_ids and index; on an exception documents and doc_ids are emptied    *)
(* and the index is left as it is.                                         *)
LoadEffect(dk, docs, ids, ix) ==
    CASE dk.kind = "store" ->
            StoreOf(dk.documents, dk.doc_ids, DeserializeIndex(dk.index))
      [] dk.kind = "partial" -> StoreOf(EmptyDocs, <<>>, ix)
      [] OTHER -> StoreOf(docs, ids, ix)

(* __init__: an empty store, then load(). *)
FreshStore(dk) == LoadEffect(dk, EmptyDocs, <<>>, <<>>)

-----------------------------------------------------------------------------
(* VectorStore operations, as functions of the store. *)

NoMetadata == [filename |-> None, upload_time |-> None]

(* ' '.join(text_chunks): the pieces with a blank between neighbours. *)
Join(s) ==
    [p \in 1..(IF Len(s) = 0 THEN 0 ELSE 2 * Len(s) - 1) |->
        IF p % 2 = 1 THEN s[(p + 1) \div 2] ELSE " "]

Put(docs, d, rec) ==
    [e \in DOMAIN docs \cup {d} |-> IF e = d THEN rec ELSE docs[e]]

(* A plausible slip: the record is kept. *)
MutRemoveKeeps(docs, d) == docs

(* A plausible slip: the whole map is cleared. *)
MutRemoveClears(docs, d) == EmptyDocs

(* del self.documents[doc_id] *)
Del(docs, d) == [e \in DOMAIN docs \ {d} |-> docs[e]]

HasDocumentIn(docs, d) == d \in DOMAIN docs

(* add_document with a save() that lets the failure of the write escape. *)
MutAddPropagates(docs, ids, ix, dk, document_id, text_chunks, embeddings, metadata, w) ==
    LET rec == [chunks |-> text_chunks,
                chunk_start_idx |-> Len(ids),
                filename |-> IF metadata.filename # None
                             THEN metadata.filename[1] ELSE document_id,
                upload_time |-> metadata.upload_time,
                text |-> Join(text_chunks)]
        docs1 == Put(docs, document_id, rec)
    IN  IF ~IndexAddable(embeddings)
        THEN [documents |-> docs1, doc_ids |-> ids, index |-> ix,
              disk |-> dk, outcome |-> "raised"]
        ELSE LET ix1 == ix \o embeddings.vecs
                 ids1 == ids \o [i \in 1..Len(text_chunks) |-> document_id]
             IN  [documents |-> docs1, doc_ids |-> ids1, index |-> ix1,
                  disk |-> SaveEffect(dk, docs1, ids1, ix1, w),
                  outcome |-> IF w = "crash" THEN "died"
                              ELSE IF w = "ok" THEN "returned" ELSE "raised"]

(* add_document: the record is stored first, then the embeddings are       *)
(* added to the index (which may raise), then doc_ids grows by one entry   *)
(* per chunk, then save().                                                 *)
AddEffect(docs, ids, ix, dk, document_id, text_chunks, embeddings, metadata, w) ==
    LET rec == [chunks |-> text_chunks,
                chunk_start_idx |-> Len(ids),
                filename |-> IF metadata.filename # None
                             THEN metadata.filename[1] ELSE document_id,
                upload_time |-> metadata.upload_time,
                text |-> Join(text_chunks)]
        docs1 == Put(docs, document_id, rec)
    IN  IF ~IndexAddable(embeddings)
        THEN [documents |-> docs1, doc_ids |-> ids, index |-> ix,
              disk |-> dk, outcome |-> "raised"]
        ELSE LET ix1 == ix \o embeddings.vecs
                 ids1 == ids \o [i \in 1..Len(text_chunks) |-> document_id]
             IN  [documents |-> docs1, doc_ids |-> ids1, index |-> ix1,
                  disk |-> SaveEffect(dk, docs1, ids1, ix1, w),
                  outcome |-> IF w = "crash" THEN "died" ELSE "returned"]

(* remove_document: False on an absent id; otherwise the record is         *)
(* deleted, the vectors stay in the index, save(), True.                   *)
RemoveEffect(docs, ids, ix, dk, doc_id, w) ==
    IF ~HasDocumentIn(docs, doc_id)
    THEN [documents |-> docs, disk |-> dk, outcome |-> "returned", value |-> FALSE]
    ELSE LET docs1 == Del(docs, doc_id)
         IN  [documents |-> docs1,
              disk |-> SaveEffect(dk, docs1, ids, ix, w),
              outcome |-> IF w = "crash" THEN "died" ELSE "returned",
              value |-> TRUE]

(* The test search applies to a raw hit h = (idx, dist). *)
HitIsLive(docs, ids, h) ==
    /\ h.idx >= 0
    /\ h.idx < Len(ids)
    /\ ids[h.idx + 1] \in DOMAIN docs
    /\ LET rec == docs[ids[h.idx + 1]]
           relative_idx == h.idx - rec.chunk_start_idx
       IN  relative_idx >= 0 /\ relative_idx < Len(rec.chunks)

(* A result that always carries the first chunk of the document. *)
MutHitFirstChunk(docs, ids, h) ==
    [doc_id |-> ids[h.idx + 1], chunk |-> docs[ids[h.idx + 1]].chunks[1],
     score |-> h.dist]

HitResult(docs, ids, h) ==
    LET rec == docs[ids[h.idx + 1]]
    IN  [doc_id |-> ids[h.idx + 1],
         chunk |-> rec.chunks[h.idx - rec.chunk_start_idx + 1],
         score |-> h.dist]

(* search(query_embedding, top_k, threshold) on a given store. *)
SearchIn(docs, ids, ix, q, top_k, threshold) ==
    IF Len(ix) = 0 THEN <<>>
    ELSE LET raw == IndexSearch(ix, q, Min(top_k, Len(ix)))
             Live(h) == HitIsLive(docs, ids, h)
             kept == SelectSeq(raw, Live)
             results == [i \in 1..Len(kept) |-> HitResult(docs, ids, kept[i])]
             Within(r) == r.score <= threshold[1]
         IN  IF threshold # None THEN SelectSeq(results, Within) ELSE results

Search(q, top_k, threshold) == SearchIn(documents, doc_ids, index, q, top_k, threshold)

HasDocument(d) == HasDocumentIn(documents, d)

(* get_all_documents(): the summary listing. *)
GetAllDocuments ==
    {[id |-> d, filename |-> documents[d].filename,
      upload_time |-> documents[d].upload_time,
      chunks_count |-> Len(documents[d].chunks)] : d \in DOMAIN documents}

-----------------------------------------------------------------------------
(* The store as a state machine. *)

Mem == StoreOf(documents, doc_ids, index)

NoCrash == [happened |-> FALSE, prev |-> StoreOf(EmptyDocs, <<>>, <<>>),
            new |-> StoreOf(EmptyDocs, <<>>, <<>>)]

(* The process died inside save(): the store a restart would have loaded   *)
(* before the write began, and the store that was being written.           *)
CrashedIn(dk, docs, ids, ix) ==
    [happened |-> TRUE, prev |-> FreshStore(dk), new |-> StoreOf(docs, ids, ix)]

Queries == Points
TopKs == 1..MaxTopK
Thresholds == {None} \cup {Some(t) : t \in 0..MaxThreshold}

(* The chunk lists handed to add_document. *)
ChunkLists == {<<"cats">>, <<"cats", "dogs">>}
CoreChunkLists == ChunkLists \cup {<<"dogs">>}

(* Embedding lists of the length of the chunk list: each vector of the     *)
(* index's dimension, or of a wrong one.                                   *)
EmbeddingsFor(chunks) ==
    {ListOf([i \in 1..Len(chunks) |-> Embed(chunks[i])]),
     ListOf([i \in 1..Len(chunks) |-> BadVector])}

(* No split_into_chunks call is running. *)
IdleChunker ==
    [pc |-> "idle", text |-> <<>>, chunk_size |-> 0, overlap |-> 0,
     paragraphs |-> <<>>, i |-> 0, sentences |-> <<>>, j |-> 0,
     chunks |-> <<>>, current_chunk |-> <<>>, current_length |-> 0,
     sentence_chunk |-> <<>>, sentence_chunk_length |-> 0]

(* No _process_pdf_multithreaded call is running. *)
IdleProcessor ==
    [pc |-> "idle", pages |-> <<>>, max_workers |-> 0, chunk_size |-> 0,
     chunk_overlap |-> 0, futures |-> <<>>, k |-> 0, documents |-> <<>>,
     overtaken |-> FALSE]

(* The threads that serve requests. *)
Threads == {1, 2}

(* No request is being served. *)
IdleThreads == [t \in Threads |-> [pc |-> "idle", req |-> <<>>, response |-> <<>>]]

Init ==
    /\ documents = EmptyDocs
    /\ doc_ids = <<>>
    /\ index = <<>>
    /\ disk = MissingFile
    /\ cache = {}
    /\ now = 0
    /\ alive = TRUE
    /\ ret = [op |-> "init"]
    /\ removed = {}
    /\ crash = NoCrash
    /\ faults = 0
    /\ chunker = IdleChunker
    /\ processor = IdleProcessor
    /\ threads = IdleThreads

(* A write that goes wrong is drawn only while the budget lasts. *)
MayWrite(w) == w = "ok" \/ faults < MaxFaults

(* vector_store.add_document(document_id, text_chunks, embeddings) *)
AddDocument(d, chunks, emb, w) ==
    /\ alive
    /\ MayWrite(w)
    /\ Len(index) + Len(chunks) <= MaxIndex
    /\ LET r == AddEffect(documents, doc_ids, index, disk, d, chunks, emb, NoMetadata, w)
       IN  /\ documents' = r.documents
           /\ doc_ids' = r.doc_ids
           /\ index' = r.index
           /\ disk' = r.disk
           /\ alive' = (r.outcome # "died")
           /\ ret' = [op |-> "add", arg |-> d, outcome |-> r.outcome, value |-> d,
                      write |-> IF r.outcome = "raised" THEN "none" ELSE w]
           /\ removed' = IF r.outcome = "returned" THEN removed \ {d} ELSE removed
           /\ crash' = IF r.outcome = "died"
                       THEN CrashedIn(disk, r.documents, r.doc_ids, r.index)
                       ELSE NoCrash
           /\ faults' = IF r.outcome # "raised" /\ w # "ok" THEN faults + 1 ELSE faults
    /\ UNCHANGED <<processor, threads, chunker, cache, now>>

(* vector_store.remove_document(doc_id) *)
RemoveDocument(d, w) ==
    /\ alive
    /\ MayWrite(w)
    /\ LET r == RemoveEffect(documents, doc_ids, index, disk, d, w)
       IN  /\ documents' = r.documents
           /\ disk' = r.disk
           /\ alive' = (r.outcome # "died")
           /\ ret' = [op |-> "remove", arg |-> d, outcome |-> r.outcome,
                      value |-> r.value,
                      write |-> IF r.value THEN w ELSE "none"]
           /\ removed' = IF r.outcome = "returned" /\ r.value
                         THEN removed \cup {d} ELSE removed
           /\ crash' = IF r.outcome = "died"
                       THEN CrashedIn(disk, r.documents, doc_ids, index)
                       ELSE NoCrash
           /\ faults' = IF r.value /\ w # "ok" THEN faults + 1 ELSE faults
    /\ UNCHANGED <<processor, threads, chunker, doc_ids, index, cache, now>>

(* vector_store.search(query_embedding, top_k, threshold) *)
DoSearch(q, k, t) ==
    /\ alive
    /\ ret' = [op |-> "search", arg |-> "", outcome |-> "returned",
               value |-> Search(q, k, t), write |-> "none"]
    /\ crash' = NoCrash
    /\ UNCHANGED <<processor, threads, chunker, documents, doc_ids, index, disk, cache, now, alive,
                   removed, faults>>

(* vector_store.save() *)
Save(w) ==
    /\ alive
    /\ MayWrite(w)
    /\ disk' = SaveEffect(disk, documents, doc_ids, index, w)
    /\ alive' = (w # "crash")
    /\ ret' = [op |-> "save", arg |-> "", outcome |-> IF w = "crash" THEN "died" ELSE "returned",
               value |-> "", write |-> w]
    /\ crash' = IF w = "crash" THEN CrashedIn(disk, documents, doc_ids, index) ELSE NoCrash
    /\ faults' = IF w # "ok" THEN faults + 1 ELSE faults
    /\ UNCHANGED <<processor, threads, chunker, documents, doc_ids, index, cache, now, removed>>

(* vector_store.load() on the running store *)
Load ==
    /\ alive
    /\ LET s == LoadEffect(disk, documents, doc_ids, index)
       IN  /\ documents' = s.documents
           /\ doc_ids' = s.doc_ids
           /\ index' = s.index
    /\ ret' = [op |-> "load", arg |-> "", outcome |-> "returned", value |-> "",
               write |-> "none"]
    /\ removed' = {}
    /\ crash' = NoCrash
    /\ UNCHANGED <<processor, threads, chunker, disk, cache, now, alive, faults>>

(* VectorStore(): a new process (or a new object) on the same store_path *)
Restart ==
    /\ LET s == FreshStore(disk)
       IN  /\ documents' = s.documents
           /\ doc_ids' = s.doc_ids
           /\ index' = s.index
    /\ alive' = TRUE
    /\ ret' = [op |-> "restart", arg |-> "", outcome |-> "returned", value |-> "",
               write |-> "none"]
    /\ removed' = {}
    /\ UNCHANGED <<processor, threads, chunker, disk, cache, now, crash, faults>>

Next ==
    \/ \E d \in DocIds, chunks \in ChunkLists, w \in WriteOutcomes :
          \E emb \in EmbeddingsFor(chunks) : AddDocument(d, chunks, emb, w)
    \/ \E d \in DocIds, w \in WriteOutcomes : RemoveDocument(d, w)
    \/ \E w \in WriteOutcomes : Save(w)
    \/ Load
    \/ Restart

Spec == Init /\ [][Next]_vars

(* The store driven by add_document, remove_document and search alone, on  *)
(* a process that keeps running.                                           *)
NextCore ==
    \/ \E d \in DocIds, chunks \in CoreChunkLists :
          \E emb \in EmbeddingsFor(chunks) : AddDocument(d, chunks, emb, "ok")
    \/ \E d \in DocIds : RemoveDocument(d, "ok")
    \/ \E q \in Queries, k \in TopKs, t \in Thresholds : DoSearch(q, k, t)

SpecCore == Init /\ [][NextCore]_vars

-----------------------------------------------------------------------------
(* app/routes.py: the HTTP handlers over the store. *)

ALLOWED_EXTENSIONS == {"pdf"}

(* The names a client may send: file.filename as a whole, and the part     *)
(* after its last dot (None when it has no dot).                           *)
FileNames ==
    {[name |-> "", ext |-> None],
     [name |-> "doc.pdf", ext |-> Some("pdf")],
     [name |-> "my doc.PDF", ext |-> Some("PDF")],
     [name |-> "notes.txt", ext |-> Some("txt")],
     [name |-> "README", ext |-> None]}

Lower(e) == IF e = "PDF" THEN "pdf" ELSE e

(* allowed_file(filename) *)
AllowedFile(f) == f.ext # None /\ Lower(f.ext[1]) \in ALLOWED_EXTENSIONS

(* werkzeug's secure_filename: blanks become underscores. *)
SecureFilename(f) == IF f.name = "my doc.PDF" THEN "my_doc.PDF" ELSE f.name

(* What open() and PyPDF2 make of a byte string handed to                  *)
(* extract_text_from_pdf as its file_path.                                 *)
Sources == <<"text", "encrypted", "corrupt", "scanned", "unopenable">>

(* The uploaded byte strings, numbered; each has one source class. *)
Contents == {[bytes |-> b, source |-> Sources[b]] : b \in DOMAIN Sources}

(* get_file_hash: the md5 hex digest of the bytes. *)
GetFileHash(bytes) == <<"d41d", "9e10", "7b8b", "e4da", "1679">>[bytes]

(* The strings extract_text_from_pdf returns, as character sequences       *)
(* (abbreviated).                                                          *)
PageText == <<"h", "i">>
EncryptedMsg == <<"E", "1">>
CorruptMsg == <<"E", "2">>
NoTextMsg == <<"W", "3">>
UnexpectedMsg == <<"E", "4">>

(* extract_text_from_pdf(file_path): always a str, the text or a message. *)
ExtractTextFromPdf(content) ==
    CASE content.source = "unopenable" -> UnexpectedMsg
      [] content.source = "encrypted" -> EncryptedMsg
      [] content.source = "corrupt" -> CorruptMsg
      [] content.source = "scanned" -> NoTextMsg
      [] OTHER -> PageText

(* generate_embeddings(text): a cached result is returned as it is;        *)
(* otherwise the text is chunked and encoded (the model may raise) and the *)
(* result is cached. The value is a dict {'chunks', 'embeddings'}.         *)
GenerateEmbeddings(text, ch, modelOk) ==
    IF text \in ch THEN [raised |-> FALSE, value |-> DictValue, cache |-> ch]
    ELSE IF ~modelOk THEN [raised |-> TRUE, value |-> DictValue, cache |-> ch]
    ELSE [raised |-> FALSE, value |-> DictValue, cache |-> ch \cup {text}]

(* The JSON response, with the request it answers and the stage the       *)
(* handler ended in.                                                       *)
Response(status, message, document_id, req, stage) ==
    [op |-> "upload", status |-> status, message |-> message,
     document_id |-> document_id, bytes |-> req.content.bytes,
     accepted |-> req.has_file /\ AllowedFile(req.filename),
     stage |-> stage,
     embedded |-> stage \in {"embed", "store", "done"}]

(* upload_file() up to and including the has_document test: the response  *)
(* it returns there, or None when it goes on.                              *)
UploadCheck(docs, req) ==
    IF ~req.has_file
    THEN Some(Response(400, "No file uploaded", None, req, "validate"))
    ELSE IF req.filename.name = ""
    THEN Some(Response(400, "No file selected", None, req, "validate"))
    ELSE IF ~AllowedFile(req.filename)
    THEN Some(Response(400, "Invalid file type", None, req, "validate"))
    ELSE IF HasDocumentIn(docs, GetFileHash(req.content.bytes))
    THEN Some(Response(200, "File already processed",
                       Some(GetFileHash(req.content.bytes)), req, "dedup"))
    ELSE None

(* upload_file() after the has_document test: extraction, embedding and    *)
(* add_document.                                                           *)
UploadStore(docs, ch, req, t, modelOk) ==
    LET filename == SecureFilename(req.filename)
        file_hash == GetFileHash(req.content.bytes)
        text_chunks == ExtractTextFromPdf(req.content)
        g == GenerateEmbeddings(text_chunks, ch, modelOk)
        a == AddEffect(docs, doc_ids, index, disk, file_hash, text_chunks, g.value,
                       [filename |-> Some(filename), upload_time |-> Some(t)], "ok")
    IN  IF text_chunks = <<>>
        THEN [documents |-> docs, cache |-> ch,
              response |-> Response(400, "Could not extract text from PDF",
                                    None, req, "extract")]
        ELSE IF g.raised
        THEN [documents |-> docs, cache |-> ch,
              response |-> Response(500, "Failed to process file", None, req, "embed")]
        ELSE IF a.outcome = "raised"
        THEN [documents |-> a.documents, cache |-> g.cache,
              response |-> Response(500, "Failed to process file", None, req, "store")]
        ELSE [documents |-> a.documents, cache |-> g.cache,
              response |-> Response(200, "File processed successfully",
                                    Some(file_hash), req, "done")]

(* upload_file(): the response, and the store and cache it leaves. *)
UploadEffect(docs, ch, req, t, modelOk) ==
    IF UploadCheck(docs, req) # None
    THEN [documents |-> docs, cache |-> ch, response |-> UploadCheck(docs, req)[1]]
    ELSE UploadStore(docs, ch, req, t, modelOk)

Requests == [has_file : BOOLEAN, filename : FileNames, content : Contents]

(* POST /upload *)
Upload(req, modelOk) ==
    /\ alive
    /\ now < MaxTime
    /\ now' = now + 1
    /\ LET u == UploadEffect(documents, cache, req, now, modelOk)
       IN  /\ documents' = u.documents
           /\ cache' = u.cache
           /\ ret' = u.response
    /\ UNCHANGED <<processor, threads, chunker, doc_ids, index, disk, alive, removed, crash, faults>>

(* DELETE /document/<doc_id> *)
DeleteDocument(d) ==
    /\ alive
    /\ LET r == RemoveEffect(documents, doc_ids, index, disk, d, "ok")
       IN  /\ documents' = r.documents
           /\ disk' = r.disk
           /\ ret' = [op |-> "delete", status |-> IF r.value THEN 200 ELSE 404,
                      document_id |-> Some(d)]
    /\ UNCHANGED <<processor, threads, chunker, doc_ids, index, cache, now, alive, removed, crash, faults>>

(* GET /documents *)
ListDocuments ==
    /\ alive
    /\ ret' = [op |-> "list", status |-> 200, documents |-> GetAllDocuments,
               count |-> Cardinality(GetAllDocuments)]
    /\ UNCHANGED <<processor, threads, chunker, documents, doc_ids, index, disk, cache, now, alive,
                   removed, crash, faults>>

Hashes == {GetFileHash(c.bytes) : c \in Contents}

NextUpload ==
    \/ \E req \in Requests, modelOk \in BOOLEAN : Upload(req, modelOk)
    \/ \E d \in Hashes : DeleteDocument(d)
    \/ ListDocuments

SpecUpload == Init /\ [][NextUpload]_vars

-----------------------------------------------------------------------------
(* Properties of search over add_document and remove_document (SpecCore). *)

(* The 0-based index positions search would accept if it reached them. *)
LivePositions ==
    {i \in 0..(Len(index) - 1) : HitIsLive(documents, doc_ids, [idx |-> i, dist |-> 0])}

DocIdsOf(results) == {results[i].doc_id : i \in DOMAIN results}

(* C1: once remove_document(d) has returned True, and until d is added     *)
(* again, no search (any query vector, top_k, threshold) returns a result  *)
(* whose doc_id is d, although d's vectors are still in the index.         *)
C1_RemovedNeverReturned ==
    \A d \in removed, q \in Queries, k \in TopKs, t \in Thresholds :
        d \notin DocIdsOf(Search(q, k, t))

(* A search has returned results while a removed document's vectors are    *)
(* still in the index.                                                     *)
C1_Witness ==
    /\ ret.op = "search"
    /\ ret.value # <<>>
    /\ \E d \in removed : \E i \in DOMAIN doc_ids : doc_ids[i] = d

(* The hits a search for the k nearest live chunks would return. *)
NearestLive(q, k) ==
    LET LiveRank(i) ==
            Cardinality({j \in LivePositions :
                \/ L2(index[j + 1], q) < L2(index[i + 1], q)
                \/ L2(index[j + 1], q) = L2(index[i + 1], q) /\ j < i})
    IN  [r \in 1..k |->
            LET i == CHOOSE i \in LivePositions : LiveRank(i) = r - 1
            IN  HitResult(documents, doc_ids, [idx |-> i, dist |-> L2(index[i + 1], q)])]

(* Every index position whose id is in the store is one search accepts:   *)
(* no live id was added a second time.                                     *)
NoSupersededEntries ==
    \A i \in 0..(Len(doc_ids) - 1) :
        doc_ids[i + 1] \in DOMAIN documents => i \in LivePositions

(* No two indexed vectors are equally far from q. *)
TieFree(q) ==
    \A i, j \in DOMAIN index : i # j => L2(index[i], q) # L2(index[j], q)

(* C2: whenever at least top_k chunks of live documents are indexed,       *)
(* search(q, top_k) returns top_k results, the top_k nearest live chunks,  *)
(* even when vectors of removed documents lie nearer to q (stated for the  *)
(* stores in which the only dead index entries are those of removed        *)
(* documents, and for the queries whose nearest vectors are not tied).     *)
C2_TopKNearestLive ==
    \A q \in Queries, k \in TopKs :
        (NoSupersededEntries /\ TieFree(q) /\ Cardinality(LivePositions) >= k)
            => Search(q, k, None) = NearestLive(q, k)

-----------------------------------------------------------------------------
(* Properties of persistence (Spec). *)

(* C3: when add_document, or remove_document on an existing id, returns    *)
(* and the write did not fail, the file holds exactly the document map,    *)
(* the id-lookup sequence and the index contents of the store in memory.   *)
C3_PersistedAtReturn ==
    (ret.op \in {"add", "remove"} /\ ret.outcome = "returned" /\ ret.write = "ok")
        => /\ disk.kind = "store"
           /\ disk.documents = documents
           /\ disk.doc_ids = doc_ids
           /\ DeserializeIndex(disk.index) = index

(* remove_document has returned True with a good write, leaving a live     *)
(* document and an orphaned vector behind.                                 *)
C3_Witness ==
    /\ ret.op = "remove"
    /\ ret.outcome = "returned"
    /\ ret.write = "ok"
    /\ documents # EmptyDocs
    /\ Len(index) > Cardinality(LivePositions)

(* C4: if the process stops during save(), a store constructed afterwards  *)
(* loads either the complete previous store or the complete new store.     *)
C4_AllOrNothing ==
    (ret.op = "restart" /\ crash.happened) => (Mem = crash.prev \/ Mem = crash.new)

(* C5: after save(), a fresh VectorStore on the same path holds the same   *)
(* document records and id-lookup sequence and answers every search (query *)
(* vector, top_k, threshold) with the same results in the same order.      *)
C5_RoundTrip ==
    (ret.op = "save" /\ ret.outcome = "returned" /\ ret.write = "ok")
        => LET s == FreshStore(disk)
           IN  /\ s.documents = documents
               /\ s.doc_ids = doc_ids
               /\ \A q \in Queries, k \in TopKs, t \in Thresholds :
                     SearchIn(s.documents, s.doc_ids, s.index, q, k, t) = Search(q, k, t)

(* save() has returned with a good write on a store that holds a live      *)
(* document, an orphaned vector and a search with results.                 *)
C5_Witness ==
    /\ ret.op = "save"
    /\ ret.outcome = "returned"
    /\ ret.write = "ok"
    /\ Len(index) > Cardinality(LivePositions)
    /\ \E q \in Queries, k \in TopKs : Search(q, k, None) # <<>>

(* C6: in every reachable state the id-lookup sequence has as many entries *)
(* as the index holds vectors.                                             *)
C6_LookupMatchesIndex == Len(doc_ids) = Len(index)

RECURSIVE SumChunksOver(_, _)
SumChunksOver(docs, S) ==
    IF S = {} THEN 0
    ELSE LET d == CHOOSE d \in S : TRUE
         IN  Len(docs[d].chunks) + SumChunksOver(docs, S \ {d})

(* Sum of the chunk counts of the live documents. *)
SumChunks(docs) == SumChunksOver(docs, DOMAIN docs)

(* C7: the sum of the chunk counts of the live documents never exceeds the *)
(* number of vectors in the index, and the two are equal until a           *)
(* remove_document succeeds: they are equal at first and every             *)
(* add_document call made while they are equal leaves them equal.          *)
C7_ChunkCountInvariant ==
    [][/\ SumChunks(documents') <= Len(index')
       /\ (ret'.op = "add" /\ SumChunks(documents) = Len(index))
             => SumChunks(documents') = Len(index')]_vars

(* C8: remove_document on an absent id returns False and changes nothing,  *)
(* in memory or on disk; on an existing id it returns True, has_document   *)
(* is False afterwards, and every other record, the id-lookup sequence and *)
(* the index vectors are as before.                                        *)
C8_RemoveFrame ==
    [][(ret'.op = "remove" /\ ret'.outcome = "returned")
          => IF ~HasDocument(ret'.arg)
             THEN /\ ret'.value = FALSE
                  /\ UNCHANGED <<documents, doc_ids, index, disk>>
             ELSE /\ ret'.value = TRUE
                  /\ ~HasDocumentIn(documents', ret'.arg)
                  /\ DOMAIN documents' = DOMAIN documents \ {ret'.arg}
                  /\ \A e \in DOMAIN documents \ {ret'.arg} : documents'[e] = documents[e]
                  /\ UNCHANGED <<doc_ids, index>>]_vars

(* remove_document has returned True while another document is live. *)
C8_Witness ==
    /\ ret.op = "remove"
    /\ ret.outcome = "returned"
    /\ ret.value = TRUE
    /\ documents # EmptyDocs
    /\ Len(index) > Cardinality(LivePositions)

-----------------------------------------------------------------------------
(* Properties of the upload handler (SpecUpload). *)

(* C9: uploading the same bytes twice yields the same document_id both     *)
(* times, and the second upload makes no embedding call and leaves the     *)
(* document map, the id-lookup sequence and the index as the first left    *)
(* them (stated for two accepted uploads in a row, the first of which was  *)
(* not stopped by a failure of the embedding model).                       *)
C9_DedupIdempotent ==
    [][(/\ ret.op = "upload" /\ ret'.op = "upload"
        /\ ret.accepted /\ ret'.accepted
        /\ ret'.bytes = ret.bytes
        /\ ret.stage # "embed")
          => /\ ret.document_id = Some(GetFileHash(ret.bytes))
             /\ ret'.document_id = ret.document_id
             /\ ~ret'.embedded
             /\ UNCHANGED <<documents, doc_ids, index>>]_vars

FailureMessages == {EncryptedMsg, CorruptMsg, NoTextMsg}

(* C10: an upload whose extraction ends in one of the three extraction     *)
(* failures creates no Document Record, and nothing derived from the       *)
(* failure message is embedded or indexed.                                 *)
C10_FailureNotStored ==
    /\ \A d \in DOMAIN documents : documents[d].chunks \notin FailureMessages
    /\ cache \cap FailureMessages = {}

-----------------------------------------------------------------------------
(* utils/rag.py: RAGSystem over the store.                                 *)
(*                                                                         *)
(* Values that cross the provider interfaces are of several Python types;  *)
(* each is a record [type, key, text, items]:                              *)
(*   - a str carries its text: the sequence of its lines (split at '\n'),  *)
(*     the empty str being <<>>;                                           *)
(*   - a dict carries one key and the text stored under it;                *)
(*   - a list carries its items, themselves such values;                   *)
(*   - None and an object of some other class carry nothing.               *)

Str(t) == [type |-> "str", key |-> "", text |-> t, items |-> <<>>]
Dict(k, t) == [type |-> "dict", key |-> k, text |-> t, items |-> <<>>]
ListV(xs) == [type |-> "list", key |-> "", text |-> <<>>, items |-> xs]
NoneV == [type |-> "none", key |-> "", text |-> <<>>, items |-> <<>>]
ObjectV == [type |-> "object", key |-> "", text |-> <<>>, items |-> <<>>]

(* bool(v): an empty str, an empty list and None are falsy. *)
Truthy(v) ==
    CASE v.type = "str" -> v.text # <<>>
      [] v.type = "list" -> v.items # <<>>
      [] v.type = "none" -> FALSE
      [] OTHER -> TRUE

(* str(v): a str is itself; anything else prints as its repr, one line     *)
(* that shows the type, the key and the text it holds.                     *)
StrOf(v) ==
    IF v.type = "str" THEN v.text
    ELSE <<"repr", v.type, v.key>> \o v.text

(* The lines generated texts are made of. *)
ScaffoldLines == {"You are a bot", "INSTRUCTIONS:", "CONTEXT INFORMATION:",
                  "USER QUESTION: q", "RESPONSE:"}
NumberedLines == {"1.  first"}
BulletLines == {"* item", "- item"}

(* line.strip() *)
StripLine(l) == IF l = " hello " THEN "hello" ELSE l

(* The replacement re.sub makes at the head of a list line. *)
Renumbered(l) == IF l = "1.  first" THEN "1. first" ELSE l
Bulleted(l) == IF l \in BulletLines THEN "(U+2022) item" ELSE l

(* str.strip() on a text whose lines are already stripped: the blank lines *)
(* at both ends go.                                                        *)
RECURSIVE StripHead(_)
StripHead(t) ==
    IF t # <<>> /\ StripLine(Head(t)) = "" THEN StripHead(Tail(t)) ELSE t

RECURSIVE StripTail(_)
StripTail(t) ==
    IF t # <<>> /\ StripLine(t[Len(t)]) = ""
    THEN StripTail(SubSeq(t, 1, Len(t) - 1)) ELSE t

Strip(t) == StripTail(StripHead(t))

(* The loop of _format_response over the lines. *)
RECURSIVE CleanLines(_, _)
CleanLines(lines, cleaned_lines) ==
    IF lines = <<>> THEN cleaned_lines
    ELSE LET line == StripLine(Head(lines))
         IN  IF line = "" /\ cleaned_lines = <<>>
             THEN CleanLines(Tail(lines), cleaned_lines)
             ELSE IF line \in ScaffoldLines
             THEN CleanLines(Tail(lines), cleaned_lines)
             ELSE CleanLines(Tail(lines), Append(cleaned_lines, line))

(* The two re.sub calls on list markers: a newline goes in front of each   *)
(* numbered or bulleted line, and the marker is rewritten.                 *)
RECURSIVE MarkLists(_)
MarkLists(t) ==
    IF t = <<>> THEN <<>>
    ELSE LET l == Head(t)
         IN  (IF l \in NumberedLines THEN <<"", Renumbered(l)>>
              ELSE IF l \in BulletLines THEN <<"", Bulleted(l)>>
              ELSE <<l>>) \o MarkLists(Tail(t))

(* re.sub(r'\n{3,}', '\n\n'): two or more blank lines in a row become one. *)
RECURSIVE CollapseBlank(_)
CollapseBlank(t) ==
    IF Len(t) < 2 THEN t
    ELSE IF t[1] = "" /\ t[2] = "" THEN CollapseBlank(Tail(t))
    ELSE <<t[1]>> \o CollapseBlank(Tail(t))

FormatText(t) ==
    Strip(CollapseBlank(MarkLists(Strip(CleanLines(Strip(t), <<>>)))))

(* RAGSystem._format_response *)
FormatResponse(response_text) ==
    IF ~Truthy(response_text) \/ response_text.type # "str"
    THEN response_text
    ELSE Str(FormatText(response_text.text))

(* The "Cleanup response if needed" block of _generate_response and of     *)
(* summarize_document.                                                     *)
KnownKeys == {"text", "generated_text", "response"}

NormalizeResponse(response) ==
    IF response.type = "dict"
    THEN IF response.key \in KnownKeys
         THEN Str(response.text)
         ELSE Str(StrOf(response))
    ELSE IF response.type = "list" /\ Len(response.items) > 0
    THEN IF response.items[1].type = "dict" /\ response.items[1].key = "text"
         THEN Str(response.items[1].text)
         ELSE Str(StrOf(response.items[1]))
    ELSE response

(* A raise of the provider, in the place of the value it would return. *)
RaiseV == [type |-> "raise", key |-> "", text |-> <<>>, items |-> <<>>]

(* The embedding model handed to RAGSystem: whether there is one, the      *)
(* methods it exposes, whether its vectors have the index's dimension, and *)
(* the calls on which it raises ("question" in query, "rerank_question"    *)
(* in _rerank_documents, and the chunk of a candidate being scored).       *)
EmbeddingModel(present, caps, dim, fails) ==
    [present |-> present, caps |-> caps, dim |-> dim, fails |-> fails]

NoEmbeddingModel == EmbeddingModel(FALSE, {}, "ok", {})
DefaultEmbeddingModel == EmbeddingModel(TRUE, {"encode"}, "ok", {})

(* self.is_sentence_transformer = hasattr(self.embedding_model, 'encode') *)
IsSentenceTransformer(em) == "encode" \in em.caps

(* The vector the model gives a question. *)
QuestionVector(em, question) ==
    IF em.dim = "ok" THEN Embed(question) ELSE BadVector

(* RAGSystem._get_query_embedding: the vector, or None. *)
GetQueryEmbedding(em, text, call) ==
    IF ~em.present THEN None
    ELSE IF call \in em.fails THEN None
    ELSE IF IsSentenceTransformer(em) THEN Some(QuestionVector(em, text))
    ELSE IF "embed_query" \in em.caps THEN Some(QuestionVector(em, text))
    ELSE IF "embed_documents" \in em.caps THEN Some(QuestionVector(em, text))
    ELSE None

(* The vector the model gives str(doc) of a retrieved candidate: the       *)
(* printed dict {'doc_id', 'chunk', 'score'}, a text other than the chunk. *)
DocVector(doc) ==
    [j \in 1..Dimension |-> IF doc.chunk = "cats" THEN Embed("cats")[j] ELSE 1]

RECURSIVE Dot(_, _, _)
Dot(u, v, j) == IF j = 0 THEN 0 ELSE u[j] * v[j] + Dot(u, v, j - 1)

(* Cosine similarity of two vectors with coordinates >= 0, kept as the     *)
(* fraction num/den of its square (the order of the squares is the order   *)
(* of the cosines); 0.0 is 0/1.                                            *)
Similarity(u, v) ==
    [num |-> Dot(u, v, Len(u)) * Dot(u, v, Len(u)),
     den |-> Dot(u, u, Len(u)) * Dot(v, v, Len(v))]

ZeroScore == [num |-> 0, den |-> 1]

ScoreGreater(a, b) == a.num * b.den > b.num * a.den

(* list.sort(key=score, reverse=True): descending, stable. *)
SortDescending(scored_docs) ==
    LET n == Len(scored_docs)
        Before(j, i) ==
            \/ ScoreGreater(scored_docs[j].score, scored_docs[i].score)
            \/ /\ ~ScoreGreater(scored_docs[i].score, scored_docs[j].score)
               /\ j < i
        Place(i) == Cardinality({j \in 1..n : Before(j, i)}) + 1
    IN  [r \in 1..n |-> scored_docs[CHOOSE i \in 1..n : Place(i) = r]]

(* RAGSystem._rerank_documents on candidates returned by                   *)
(* VectorStore.search: these are dicts, which have no metadata attribute,  *)
(* so the branch that sorts by a stored score is not taken.                *)
RerankDocuments(em, question, docs) ==
    IF ~em.present THEN docs
    ELSE LET question_embedding == GetQueryEmbedding(em, question, "rerank_question")
         IN  IF question_embedding = None THEN docs
             ELSE IF ~IsSentenceTransformer(em) /\ "embed_documents" \notin em.caps
             THEN docs
             ELSE LET scored_docs ==
                          [i \in 1..Len(docs) |->
                              [doc |-> docs[i],
                               score |-> IF docs[i].chunk \in em.fails
                                         THEN ZeroScore
                                         ELSE Similarity(question_embedding[1],
                                                         DocVector(docs[i]))]]
                      sorted == SortDescending(scored_docs)
                  IN  [i \in 1..Len(sorted) |-> sorted[i].doc]

(* The language model handed to RAGSystem: whether there is one, the       *)
(* methods it exposes, and what a call of it returns (or RaiseV).          *)
Provider(present, caps, reply) ==
    [present |-> present, caps |-> caps, reply |-> reply]

NoProvider == Provider(FALSE, {}, NoneV)

(* The context block of the prompt: at most 5 documents, each numbered. *)
ContextBlock(context) ==
    [i \in 1..Min(5, Len(context)) |-> [label |-> i, doc |-> context[i]]]

Message(line) == Str(<<line>>)

(* RAGSystem._generate_response: the value returned, the method of the     *)
(* provider that was called ("none" if none was) and the context block of  *)
(* the prompt.                                                             *)
GenerateResponse(llm, question, context) ==
    LET block == ContextBlock(context)
        method == IF "generate" \in llm.caps THEN "generate"
                  ELSE IF "predict" \in llm.caps THEN "predict"
                  ELSE IF "call" \in llm.caps THEN "call"
                  ELSE "none"
    IN  IF ~llm.present
        THEN [value |-> Message("No language model available to generate a response."),
              generated |-> "none", block |-> block]
        ELSE IF method = "none"
        THEN [value |-> Message("Error: Language model doesn't support a recognized generation method."),
              generated |-> "none", block |-> block]
        ELSE IF llm.reply = RaiseV
        THEN [value |-> Message("I encountered an error while generating a response"),
              generated |-> method, block |-> block]
        ELSE [value |-> FormatResponse(NormalizeResponse(llm.reply)),
              generated |-> method, block |-> block]

(* RAGSystem.query(question, context, k, rerank): the value returned, the  *)
(* stage the call got to, the candidates retrieved and the documents       *)
(* handed to generation.                                                   *)
QueryEffect(docs, ids, ix, em, llm, question, context, k, rerank) ==
    LET Generate(retrieved, relevant_docs) ==
            LET g == GenerateResponse(llm, question, relevant_docs)
            IN  [value |-> g.value, stage |-> "generation",
                 retrieved |-> retrieved, relevant_docs |-> relevant_docs,
                 generated |-> g.generated, block |-> g.block]
        Stopped(stage, message) ==
            [value |-> Message(message), stage |-> stage,
             retrieved |-> <<>>, relevant_docs |-> <<>>,
             generated |-> "none", block |-> <<>>]
    IN  IF context # None /\ context[1] # <<>>
        THEN Generate(<<>>, context[1])
        ELSE LET query_embedding == GetQueryEmbedding(em, question, "question")
             IN  IF query_embedding = None
                 THEN Stopped("embedding", "Unable to generate embedding for your question. Please check embedding model configuration.")
                 ELSE IF Len(ix) # 0 /\ Len(query_embedding[1]) # Dimension
                 THEN Stopped("retrieval", "Sorry, I encountered an error: Vector store doesn't support search or similarity_search methods")
                 ELSE LET retrieved == SearchIn(docs, ids, ix, query_embedding[1], k, None)
                      IN  IF rerank /\ Len(retrieved) > 1
                          THEN Generate(retrieved, RerankDocuments(em, question, retrieved))
                          ELSE Generate(retrieved, retrieved)

(* VectorStore.get_document *)
GetDocumentIn(docs, doc_id) ==
    IF doc_id \in DOMAIN docs
    THEN Some([id |-> doc_id,
               filename |-> docs[doc_id].filename,
               upload_time |-> docs[doc_id].upload_time,
               text |-> docs[doc_id].text,
               chunks |-> docs[doc_id].chunks,
               chunks_count |-> Len(docs[doc_id].chunks)])
    ELSE None

(* RAGSystem._fallback_summary: the template, line by line. *)
FallbackSummary(document) ==
    Str(<<"Document Summary", "",
          "Filename: ", document.filename,
          "Content Structure: ", ToString(Len(document.chunks)), " text sections", "",
          "This document contains structured content",
          "Key Information:",
          "For detailed analysis, try asking specific questions">>)

(* RAGSystem.summarize_document(doc_id): the value returned and the method *)
(* of the provider that was called.                                        *)
SummarizeEffect(docs, llm, doc_id) ==
    LET found == GetDocumentIn(docs, doc_id)
    IN  IF found = None
        THEN [value |-> Message("Document not found."), generated |-> "none"]
        ELSE LET document == found[1]
                 full_text == IF document.text # <<>> THEN document.text
                              ELSE Join(document.chunks)
                 method == IF ~llm.present THEN "none"
                           ELSE IF "invoke" \in llm.caps THEN "invoke"
                           ELSE IF "generate" \in llm.caps THEN "generate"
                           ELSE IF "predict" \in llm.caps THEN "predict"
                           ELSE IF "call" \in llm.caps THEN "call"
                           ELSE "none"
             IN  IF document.text = <<>> /\ document.chunks = <<>>
                 THEN [value |-> Message("No content found in document."),
                       generated |-> "none"]
                 ELSE IF method = "none"
                 THEN [value |-> FallbackSummary(document), generated |-> "none"]
                 ELSE IF llm.reply = RaiseV
                 THEN [value |-> FallbackSummary(document), generated |-> method]
                 ELSE [value |-> FormatResponse(NormalizeResponse(llm.reply)),
                       generated |-> method]

(* The inputs of the RAG calls. *)
Questions == {"cats"}
Contexts == {None, Some(<<"ctx">>)}

EmbeddingModels ==
    {NoEmbeddingModel,
     DefaultEmbeddingModel,
     EmbeddingModel(TRUE, {"encode"}, "ok", {"question"}),
     EmbeddingModel(TRUE, {"encode"}, "ok", {"rerank_question"}),
     EmbeddingModel(TRUE, {"encode"}, "ok", {"cats"}),
     EmbeddingModel(TRUE, {"encode"}, "ok", {"cats", "dogs"}),
     EmbeddingModel(TRUE, {"encode"}, "bad", {}),
     EmbeddingModel(TRUE, {"embed_query"}, "ok", {}),
     EmbeddingModel(TRUE, {"embed_documents"}, "ok", {}),
     EmbeddingModel(TRUE, {}, "ok", {})}

Hello == <<"hello">>
Echo == <<"You are a bot", "", " hello ", "1.  first", "* item", "", "", "hello">>

Replies ==
    {RaiseV, NoneV, ObjectV,
     Str(Hello), Str(Echo), Str(<<>>),
     Dict("text", Hello), Dict("generated_text", Hello),
     Dict("response", Hello), Dict("other", Hello),
     ListV(<<>>), ListV(<<Str(Hello)>>),
     ListV(<<Dict("text", Hello)>>), ListV(<<Dict("generated_text", Hello)>>),
     ListV(<<Dict("response", Hello)>>)}

CapabilitySets == {{}, {"invoke"}, {"generate"}, {"predict"}, {"call"},
                   {"invoke", "generate", "predict", "call"}}

Providers ==
    {NoProvider}
        \cup {Provider(TRUE, c, Str(Hello)) : c \in CapabilitySets}
        \cup {Provider(TRUE, {"invoke", "call"}, r) : r \in Replies}

DefaultProvider == Provider(TRUE, {"invoke", "call"}, Str(Hello))

(* The RAGSystem objects tried: every embedding model with the default     *)
(* provider, and every provider with the default embedding model.          *)
RagSystems ==
    {[em |-> e, llm |-> DefaultProvider] : e \in EmbeddingModels}
        \cup {[em |-> DefaultEmbeddingModel, llm |-> l] : l \in Providers}

(* The calls of query tried: every RAGSystem on a question, with and       *)
(* without reranking, and the default one on a context handed in.          *)
QueryCalls ==
    {[rag |-> g, question |-> q, context |-> None, k |-> k, rerank |-> b] :
        g \in RagSystems, q \in Questions, k \in TopKs, b \in BOOLEAN}
    \cup
    {[rag |-> [em |-> DefaultEmbeddingModel, llm |-> DefaultProvider],
      question |-> q, context |-> c, k |-> MaxTopK, rerank |-> TRUE] :
        q \in Questions, c \in Contexts \ {None}}

(* RAGSystem(vector_store, em, llm).query(question, context, k, rerank) *)
Query(rag, question, context, k, rerank) ==
    /\ alive
    /\ LET r == QueryEffect(documents, doc_ids, index, rag.em, rag.llm,
                            question, context, k, rerank)
       IN  ret' = [op |-> "query", arg |-> question, outcome |-> "returned",
                   value |-> r.value, write |-> "none",
                   stage |-> r.stage, retrieved |-> r.retrieved,
                   relevant_docs |-> r.relevant_docs, generated |-> r.generated,
                   context |-> context, rerank |-> rerank,
                   em |-> rag.em, llm |-> rag.llm]
    /\ crash' = NoCrash
    /\ UNCHANGED <<processor, threads, chunker, documents, doc_ids, index, disk, cache, now, alive,
                   removed, faults>>

(* RAGSystem(vector_store, em, llm).summarize_document(doc_id) *)
Summarize(rag, d) ==
    /\ alive
    /\ LET r == SummarizeEffect(documents, rag.llm, d)
       IN  ret' = [op |-> "summarize", arg |-> d, outcome |-> "returned",
                   value |-> r.value, write |-> "none",
                   generated |-> r.generated, llm |-> rag.llm]
    /\ crash' = NoCrash
    /\ UNCHANGED <<processor, threads, chunker, documents, doc_ids, index, disk, cache, now, alive,
                   removed, faults>>

(* The store is filled by add_document calls with one embedding of the     *)
(* index's dimension per chunk.                                            *)
NextRag ==
    \/ \E d \in DocIds, chunks \in ChunkLists :
          AddDocument(d, chunks, ListOf([i \in 1..Len(chunks) |-> Embed(chunks[i])]), "ok")
    \/ \E d \in DocIds : RemoveDocument(d, "ok")
    \/ \E c \in QueryCalls : Query(c.rag, c.question, c.context, c.k, c.rerank)
    \/ \E rag \in RagSystems, d \in DocIds : Summarize(rag, d)

SpecRag == Init /\ [][NextRag]_vars

-----------------------------------------------------------------------------
(* Properties of RAGSystem. *)

(* C11: query always ends by returning a string: whatever the embedding    *)
(* model, the store and the provider do (absent, raising, or returning a   *)
(* value of an unrecognized shape), the value query returned is a str.     *)
C11_QueryReturnsString ==
    ret.op = "query" => (ret.outcome = "returned" /\ ret.value.type = "str")

(* C12: when the index is empty, so that search returns no candidates, a   *)
(* query that got its question embedded returns a str without calling the  *)
(* provider on a prompt whose context block is empty.                      *)
C12_EmptyIndexNoGeneration ==
    (/\ ret.op = "query"
     /\ ret.context = None
     /\ ret.stage = "generation"
     /\ Len(index) = 0)
        => /\ ret.retrieved = <<>>
           /\ ret.value.type = "str"
           /\ ~(ret.generated # "none" /\ ContextBlock(ret.relevant_docs) = <<>>)

(* The reply shapes the orchestrator is to tolerate, and the text each     *)
(* carries.                                                                *)
CarriesText(v) == v.type = "str" \/ (v.type = "dict" /\ v.key \in KnownKeys)

ToleratedShape(v) ==
    \/ CarriesText(v)
    \/ v.type = "list" /\ v.items # <<>> /\ CarriesText(v.items[1])

CarriedText(v) == IF v.type = "list" THEN v.items[1].text ELSE v.text

(* C13: when the provider's reply has a tolerated shape (a str, a dict     *)
(* with the text under text, generated_text or response, or a non-empty    *)
(* list whose first element is such a dict or a str), query and            *)
(* summarize_document return the formatted text the reply carries.         *)
C13_NormalizedToCarriedText ==
    (/\ ret.op \in {"query", "summarize"}
     /\ ret.generated # "none"
     /\ ToleratedShape(ret.llm.reply))
        => ret.value = FormatResponse(Str(CarriedText(ret.llm.reply)))

(* The call got as far as choosing a method of the provider. *)
ReachedProvider ==
    \/ ret.op = "query" /\ ret.stage = "generation"
    \/ ret.op = "summarize" /\ HasDocument(ret.arg)

(* C14: query and summarize_document accept the same providers: a provider *)
(* that exposes exactly one of invoke, generate, predict and direct call   *)
(* is called through that method by either operation.                      *)
C14_SameProviderCapabilities ==
    (/\ ReachedProvider
     /\ ret.llm.present
     /\ Cardinality(ret.llm.caps) = 1)
        => ret.generated \in ret.llm.caps

(* s is t with its elements in some order. *)
IsPermutation(s, t) ==
    /\ Len(s) = Len(t)
    /\ \A i \in 1..Len(t) :
          Cardinality({j \in 1..Len(s) : s[j] = t[i]})
              = Cardinality({j \in 1..Len(t) : t[j] = t[i]})

(* Something went wrong while the candidates of the last query were        *)
(* reranked: the question could not be embedded again, or the scoring of   *)
(* one of the candidates raised.                                           *)
RerankFailed ==
    \/ ~ret.em.present
    \/ "rerank_question" \in ret.em.fails
    \/ \E i \in 1..Len(ret.retrieved) : ret.retrieved[i].chunk \in ret.em.fails

(* C15: the documents a query hands to generation are the retrieved        *)
(* candidates in some order; they are in retrieval order unless rerank was *)
(* requested and more than one candidate was retrieved, and also whenever  *)
(* anything failed during reranking.                                       *)
C15_RerankFallsBack ==
    (ret.op = "query" /\ ret.context = None /\ ret.stage = "generation")
        => /\ IsPermutation(ret.relevant_docs, ret.retrieved)
           /\ (~ret.rerank \/ Len(ret.retrieved) <= 1)
                 => ret.relevant_docs = ret.retrieved
           /\ RerankFailed => ret.relevant_docs = ret.retrieved

(* The provider of the last call could not be used, or its call raised. *)
GenerationUnavailable ==
    \/ ~ret.llm.present
    \/ ret.llm.caps = {}
    \/ ret.llm.reply = RaiseV

(* The value is the templated summary of the stored document d: it names   *)
(* the document's filename and its number of chunks.                       *)
IsTemplatedSummary(v, d) ==
    /\ v = FallbackSummary(GetDocumentIn(documents, d)[1])
    /\ v.text[4] = documents[d].filename
    /\ v.text[6] = ToString(Len(documents[d].chunks))

(* C16: summarize_document returns a str; for an id that is not in the     *)
(* store it is the not-found message, and for a stored document whose      *)
(* summary cannot be generated (no provider, no supported method, or the   *)
(* call raises) it is the templated summary.                               *)
C16_SummarizeReturnsString ==
    ret.op = "summarize"
        => /\ ret.outcome = "returned"
           /\ ret.value.type = "str"
           /\ ~HasDocument(ret.arg) => ret.value = Message("Document not found.")
           /\ (HasDocument(ret.arg) /\ GenerationUnavailable)
                 => IsTemplatedSummary(ret.value, ret.arg)

-----------------------------------------------------------------------------
(* Further properties of the store. *)

EmptyStore == StoreOf(EmptyDocs, <<>>, <<>>)

(* C17: loading never fails, and both a missing and an unreadable store    *)
(* file leave an empty store: right after VectorStore() or load() found    *)
(* no readable store file, there are no documents, doc_ids is empty and    *)
(* the index holds no vector.                                              *)
C17_LoadDegradesToEmpty ==
    /\ (ret.op = "restart" /\ disk.kind = "missing")
          => (ret.outcome = "returned" /\ Mem = EmptyStore)
    /\ (ret.op \in {"load", "restart"} /\ disk.kind = "partial")
          => (ret.outcome = "returned" /\ Mem = EmptyStore)

(* A step of add_document or remove_document that got as far as save()    *)
(* and did not leave the store file holding the store now in memory,       *)
(* while the process kept running.                                         *)
WriteFailedStep ==
    /\ ret'.op \in {"add", "remove"}
    /\ ret'.outcome # "died"
    /\ ret'.op = "add" => Len(index') > Len(index)
    /\ ret'.op = "remove" => HasDocument(ret'.arg)
    /\ disk' # StoreFile(documents', doc_ids', index')

(* C18: a store file that cannot be written does not disturb the call or   *)
(* the store in memory: add_document returns the id and remove_document    *)
(* returns True, memory holds the change, doc_ids and the index stay       *)
(* aligned if they were, and has_document, get_document,                   *)
(* get_all_documents and search answer from the changed store.             *)
C18_UnwritableKeepsMemory ==
    [][WriteFailedStep
        => /\ ret'.outcome = "returned"
           /\ ret'.op = "add" =>
                 /\ ret'.value = ret'.arg
                 /\ HasDocumentIn(documents', ret'.arg)
                 /\ GetDocumentIn(documents', ret'.arg) # None
                 /\ \E g \in GetAllDocuments' : g.id = ret'.arg
                 /\ Len(doc_ids') - Len(doc_ids) = Len(documents'[ret'.arg].chunks)
                 /\ Len(index') - Len(index) = Len(documents'[ret'.arg].chunks)
           /\ ret'.op = "remove" =>
                 /\ ret'.value = TRUE
                 /\ ~HasDocumentIn(documents', ret'.arg)
                 /\ GetDocumentIn(documents', ret'.arg) = None
                 /\ \A g \in GetAllDocuments' : g.id # ret'.arg
                 /\ \A q \in Queries, k \in TopKs, t \in Thresholds :
                       ret'.arg \notin DocIdsOf(SearchIn(documents', doc_ids', index', q, k, t))
                 /\ UNCHANGED <<doc_ids, index>>
           /\ Len(doc_ids) = Len(index) => Len(doc_ids') = Len(index')
           /\ \A q \in Queries, k \in TopKs, t \in Thresholds :
                 DocIdsOf(SearchIn(documents', doc_ids', index', q, k, t))
                     \subseteq DOMAIN documents'
      ]_vars

C18_Witness ==
    /\ ret.op = "add"
    /\ ret.write \in {"open_fail", "dump_fail"}
    /\ disk # StoreFile(documents, doc_ids, index)
    /\ ret.outcome = "returned"
    /\ DocIdsOf(Search(Embed("cats"), MaxTopK, None)) = {ret.arg}

(* The raw hits of a search that pass the checks against the document      *)
(* store, in the order the index returned them.                            *)
LiveHits(q, k) ==
    LET Live(h) == HitIsLive(documents, doc_ids, h)
    IN  SelectSeq(IndexSearch(index, q, Min(k, Len(index))), Live)

-----------------------------------------------------------------------------
(* utils/pdf_parser.py: split_into_chunks.                                 *)
(*                                                                         *)
(* A text is the sequence of its characters, with three simplifications:   *)
(* "a" is any character that is neither whitespace nor a sentence end,     *)
(* "." is any of . ! ?, " " is any single whitespace character, and "P" is *)
(* the paragraph break '\n\n' (two characters).                            *)

(* len(text) *)
RECURSIVE StrLen(_)
StrLen(t) ==
    IF t = <<>> THEN 0
    ELSE (IF Head(t) = "P" THEN 2 ELSE 1) + StrLen(Tail(t))

(* text.split('\n\n') *)
RECURSIVE SplitParagraphs(_, _)
SplitParagraphs(text, piece) ==
    IF text = <<>> THEN <<piece>>
    ELSE IF Head(text) = "P"
    THEN <<piece>> \o SplitParagraphs(Tail(text), <<>>)
    ELSE SplitParagraphs(Tail(text), Append(piece, Head(text)))

(* p.strip() *)
RECURSIVE StripSpacesHead(_)
StripSpacesHead(t) ==
    IF t # <<>> /\ Head(t) = " " THEN StripSpacesHead(Tail(t)) ELSE t

RECURSIVE StripSpacesTail(_)
StripSpacesTail(t) ==
    IF t # <<>> /\ t[Len(t)] = " "
    THEN StripSpacesTail(SubSeq(t, 1, Len(t) - 1)) ELSE t

StripSpaces(t) == StripSpacesTail(StripSpacesHead(t))

(* [p.strip() for p in text.split('\n\n') if p.strip()] *)
Paragraphs(text) ==
    LET pieces == SplitParagraphs(text, <<>>)
        stripped == [n \in 1..Len(pieces) |-> StripSpaces(pieces[n])]
        NonEmpty(x) == x # <<>>
    IN  SelectSeq(stripped, NonEmpty)

(* re.split(r'(?<=[.!?])\s+', paragraph): a cut at every run of whitespace *)
(* that follows a sentence end; the whitespace is dropped.                 *)
RECURSIVE SplitSentences(_, _)
SplitSentences(rest, sentence) ==
    IF rest = <<>> THEN <<sentence>>
    ELSE IF Head(rest) = " " /\ sentence # <<>> /\ sentence[Len(sentence)] = "."
    THEN <<sentence>> \o SplitSentences(StripSpacesHead(rest), <<>>)
    ELSE SplitSentences(Tail(rest), Append(sentence, Head(rest)))

(* A join that keeps the first part only. *)
MutJoinFirstOnly(parts, sep) == IF parts = <<>> THEN <<>> ELSE parts[1]

(* sep.join(parts) *)
RECURSIVE JoinWith(_, _)
JoinWith(parts, sep) ==
    IF parts = <<>> THEN <<>>
    ELSE IF Len(parts) = 1 THEN parts[1]
    ELSE parts[1] \o <<sep>> \o JoinWith(Tail(parts), sep)

(* sum(len(s) for s in parts) *)
RECURSIVE SumLen(_)
SumLen(parts) ==
    IF parts = <<>> THEN 0 ELSE StrLen(Head(parts)) + SumLen(Tail(parts))

(* ensure_text_is_string: a list is joined with spaces, a str is kept, and *)
(* any other value is printed (None prints as four characters).            *)
EnsureTextIsString(input) ==
    CASE input.kind = "list" -> JoinWith(input.items, " ")
      [] input.kind = "str" -> input.text
      [] OTHER -> <<"a", "a", "a", "a">>

(* The step of a for loop to its next element. *)
Advance(n) == n + 1

(* split_into_chunks up to its first loop: the locals as the loop over the *)
(* paragraphs begins, or the return of [] on an empty text.                *)
SplitBegin(input, chunk_size, overlap) ==
    LET text == EnsureTextIsString(input)
    IN  [IdleChunker EXCEPT
            !.pc = IF text = <<>> THEN "done" ELSE "para",
            !.text = text,
            !.chunk_size = chunk_size,
            !.overlap = overlap,
            !.paragraphs = IF text = <<>> THEN <<>> ELSE Paragraphs(text),
            !.i = 1]

(* One pass of `for paragraph in paragraphs` (up to the inner loop when    *)
(* the paragraph is longer than chunk_size), or the code after the loop.   *)
ParagraphEffect(c) ==
    IF c.i > Len(c.paragraphs)
    THEN [c EXCEPT !.pc = "done",
                   !.chunks = IF c.current_chunk # <<>>
                              THEN Append(c.chunks, JoinWith(c.current_chunk, "P"))
                              ELSE c.chunks]
    ELSE LET paragraph == c.paragraphs[c.i]
         IN  IF c.current_length + StrLen(paragraph) > c.chunk_size
             THEN LET chunks1 == IF c.current_chunk # <<>>
                                 THEN Append(c.chunks, JoinWith(c.current_chunk, "P"))
                                 ELSE c.chunks
                  IN  IF StrLen(paragraph) > c.chunk_size
                      THEN [c EXCEPT !.pc = "sent",
                                     !.chunks = chunks1,
                                     !.sentences = SplitSentences(paragraph, <<>>),
                                     !.j = 1,
                                     !.sentence_chunk = <<>>,
                                     !.sentence_chunk_length = 0]
                      ELSE LET kept == IF Len(c.current_chunk) > 1
                                       THEN <<c.current_chunk[Len(c.current_chunk)]>>
                                       ELSE <<>>
                           IN  [c EXCEPT !.chunks = chunks1,
                                         !.current_chunk = Append(kept, paragraph),
                                         !.current_length = SumLen(kept) + StrLen(paragraph),
                                         !.i = Advance(c.i)]
             ELSE [c EXCEPT !.current_chunk = Append(c.current_chunk, paragraph),
                            !.current_length = c.current_length + StrLen(paragraph) + 2,
                            !.i = Advance(c.i)]

(* A sentence loop that stays where it is. *)
MutSentenceStuck(c) == c

(* One pass of `for sentence in sentences`, or the code after that loop,   *)
(* which ends the pass of the outer loop.                                  *)
SentenceEffect(c) ==
    IF c.j > Len(c.sentences)
    THEN [c EXCEPT !.pc = "para",
                   !.chunks = IF c.sentence_chunk # <<>>
                              THEN Append(c.chunks, JoinWith(c.sentence_chunk, " "))
                              ELSE c.chunks,
                   !.current_chunk = <<>>,
                   !.current_length = 0,
                   !.i = Advance(c.i)]
    ELSE LET sentence == c.sentences[c.j]
             closes == /\ c.sentence_chunk_length + StrLen(sentence) > c.chunk_size
                       /\ c.sentence_chunk # <<>>
             last_sentences == IF Len(c.sentence_chunk) >= 2
                               THEN SubSeq(c.sentence_chunk, Len(c.sentence_chunk) - 1,
                                           Len(c.sentence_chunk))
                               ELSE c.sentence_chunk
             sentence_chunk1 == IF closes THEN last_sentences ELSE c.sentence_chunk
             length1 == IF closes
                        THEN SumLen(last_sentences) + Len(last_sentences) - 1
                        ELSE c.sentence_chunk_length
         IN  [c EXCEPT !.chunks = IF closes
                                  THEN Append(c.chunks, JoinWith(c.sentence_chunk, " "))
                                  ELSE c.chunks,
                       !.sentence_chunk = Append(sentence_chunk1, sentence),
                       !.sentence_chunk_length = length1 + StrLen(sentence) + 1,
                       !.j = Advance(c.j)]

(* Bounds of the chunker's inputs. *)
MaxChunkSize == 4
MaxOverlap == 1

ChunkSizes == 1..MaxChunkSize
Overlaps == 0..MaxOverlap

StrInput(t) == [kind |-> "str", text |-> t, items |-> <<>>]
ListInput(xs) == [kind |-> "list", text |-> <<>>, items |-> xs]
NoneInput == [kind |-> "none", text |-> <<>>, items |-> <<>>]

(* The texts handed to split_into_chunks: empty and blank ones, one block  *)
(* with no boundary at all, blocks of sentences, and several paragraphs.   *)
ChunkerTexts ==
    {<<>>,
     <<" ">>,
     <<"a">>,
     <<"a", "a", "a", "a">>,
     <<"a", "a", "a", "a", "a", "a", "a">>,
     <<"a", ".", " ", "a", ".">>,
     <<"a", ".", " ", "a", ".", " ", "a", ".">>,
     <<"a", "a", ".", " ", " ", "a", "a", "a", "a", ".", " ", "a">>,
     <<"a", "P", "a">>,
     <<"a", "P", "a", "P", "a">>,
     <<"a", "a", "P", "a", "P", "a", "a">>,
     <<"a", "P", "P", "a">>,
     <<" ", "a", "P", " ", "a", " ">>,
     <<"a", ".", " ", "a", "a", "a", "P", "a">>,
     <<"a", "P", "a", ".", " ", "a", ".", " ", "a", "P", "a", "a">>,
     <<"a", "P", "b", "P", "c", "P", "d">>,
     <<"a", "P", "b", "P", "c", ".", " ", "d", ".", " ", "e", "P", "f">>,
     <<"a", ".", " ", "b", ".", " ", "c", ".", " ", "d", ".">>}

ChunkerInputs ==
    {StrInput(t) : t \in ChunkerTexts}
        \cup {ListInput(<<<<"a">>, <<"a", "P", "a">>>>), NoneInput}

(* split_into_chunks(text, chunk_size, overlap) is called. *)
SplitIntoChunks(input, chunk_size, overlap) ==
    /\ chunker.pc \in {"idle", "done"}
    /\ chunker' = SplitBegin(input, chunk_size, overlap)
    /\ UNCHANGED <<documents, doc_ids, index, disk, cache, now, alive, ret,
                   removed, crash, faults, processor, threads>>

(* The loop over the paragraphs runs one pass. *)
ParagraphStep ==
    /\ chunker.pc = "para"
    /\ chunker' = ParagraphEffect(chunker)
    /\ UNCHANGED <<documents, doc_ids, index, disk, cache, now, alive, ret,
                   removed, crash, faults, processor, threads>>

(* The loop over the sentences of an oversized paragraph runs one pass. *)
SentenceStep ==
    /\ chunker.pc = "sent"
    /\ chunker' = SentenceEffect(chunker)
    /\ UNCHANGED <<documents, doc_ids, index, disk, cache, now, alive, ret,
                   removed, crash, faults, processor, threads>>

NextChunk ==
    \/ \E input \in ChunkerInputs, chunk_size \in ChunkSizes, overlap \in Overlaps :
          SplitIntoChunks(input, chunk_size, overlap)
    \/ ParagraphStep
    \/ SentenceStep

(* A call that has begun keeps running: the interpreter goes on with the   *)
(* loop it is in.                                                          *)
SpecChunk ==
    Init /\ [][NextChunk]_vars /\ WF_vars(ParagraphStep) /\ WF_vars(SentenceStep)

(* C20: split_into_chunks terminates: every call that has entered its      *)
(* loops, whatever the text, chunk_size >= 1 and overlap, reaches its      *)
(* return, and what it returns is a finite list of finite chunks, never    *)
(* more chunks than the text has characters.                               *)
C20_ChunkerTerminates ==
    /\ (chunker.pc \in {"para", "sent"}) ~> (chunker.pc = "done")
    /\ [](chunker.pc = "done"
            => Len(chunker.chunks) <= SumLen(chunker.paragraphs))

(* A call on an oversized paragraph without any sentence boundary has      *)
(* returned.                                                               *)
C20_Witness ==
    /\ chunker.pc = "done"
    /\ \E n \in 1..Len(chunker.paragraphs) :
          /\ StrLen(chunker.paragraphs[n]) > chunker.chunk_size
          /\ Len(SplitSentences(chunker.paragraphs[n], <<>>)) = 1
    /\ chunker.chunks # <<>>

-----------------------------------------------------------------------------
(* Properties of what split_into_chunks returns. *)

RECURSIVE Concat(_)
Concat(seqs) == IF seqs = <<>> THEN <<>> ELSE Head(seqs) \o Concat(Tail(seqs))

(* The sentences of a text of one or more paragraphs, in order. *)
SentencesOf(t) ==
    LET ps == Paragraphs(t)
    IN  Concat([n \in 1..Len(ps) |-> SplitSentences(ps[n], <<>>)])

(* The paragraphs a chunk is made of. *)
ParagraphsOf(chunk) == Paragraphs(chunk)

(* rest is what the chunks from number k on add to the text, when each     *)
(* chunk may begin with sentences carried over from the end of the chunk   *)
(* before it (prev).                                                       *)
RECURSIVE AddsUp(_, _, _, _)
AddsUp(units, k, prev, rest) ==
    IF k > Len(units) THEN rest = <<>>
    ELSE \E o \in 0..Min(Len(units[k]), Len(prev)) :
            /\ SubSeq(units[k], 1, o) = SubSeq(prev, Len(prev) - o + 1, Len(prev))
            /\ LET fresh == SubSeq(units[k], o + 1, Len(units[k]))
               IN  /\ Len(fresh) <= Len(rest)
                   /\ fresh = SubSeq(rest, 1, Len(fresh))
                   /\ AddsUp(units, k + 1, units[k],
                             SubSeq(rest, Len(fresh) + 1, Len(rest)))

(* The number of the first chunk that holds paragraph p whole, or all the  *)
(* sentences of p when p is longer than chunk_size; 0 if there is none.    *)
FirstChunkWith(c, p) ==
    LET Holds(k) ==
            \E n \in 1..Len(ParagraphsOf(c.chunks[k])) :
                ParagraphsOf(c.chunks[k])[n] = p
        HoldsSentence(k, x) ==
            \E n \in 1..Len(SentencesOf(c.chunks[k])) : SentencesOf(c.chunks[k])[n] = x
        ks == IF StrLen(p) <= c.chunk_size
              THEN {k \in 1..Len(c.chunks) : Holds(k)}
              ELSE {k \in 1..Len(c.chunks) : HoldsSentence(k, SplitSentences(p, <<>>)[1])}
    IN  IF ks = {} THEN 0 ELSE CHOOSE k \in ks : \A j \in ks : k <= j

(* Every sentence of p is in some chunk. *)
AllSentencesKept(c, p) ==
    \A x \in 1..Len(SplitSentences(p, <<>>)) :
        \E k \in 1..Len(c.chunks) :
            \E n \in 1..Len(SentencesOf(c.chunks[k])) :
                SentencesOf(c.chunks[k])[n] = SplitSentences(p, <<>>)[x]

(* No two paragraphs of the text read the same. *)
NoRepeats(ps) == \A n, m \in 1..Len(ps) : ps[n] = ps[m] => n = m

(* C21: split_into_chunks drops and invents nothing: when it has returned, *)
(* every paragraph of the text is in a chunk (whole, or sentence by        *)
(* sentence when it is longer than chunk_size), first appearances of       *)
(* paragraphs that differ follow the order of the text, the chunks without their carried-over beginnings *)
(* add up to the text's paragraphs, and a text of whitespace alone gives   *)
(* no chunk.                                                               *)
C21_NothingDropped ==
    chunker.pc = "done" =>
        LET c == chunker
            units == [k \in 1..Len(c.chunks) |-> SentencesOf(c.chunks[k])]
        IN  /\ \A n \in 1..Len(c.paragraphs) :
                  /\ FirstChunkWith(c, c.paragraphs[n]) # 0
                  /\ AllSentencesKept(c, c.paragraphs[n])
            /\ \A n, m \in 1..Len(c.paragraphs) :
                  (n < m /\ NoRepeats(c.paragraphs)) => FirstChunkWith(c, c.paragraphs[n])
                              <= FirstChunkWith(c, c.paragraphs[m])
            /\ AddsUp(units, 1, <<>>,
                      Concat([n \in 1..Len(c.paragraphs) |->
                                  SplitSentences(c.paragraphs[n], <<>>)]))
            /\ (\A n \in 1..Len(c.text) : c.text[n] \in {" ", "P"}) => c.chunks = <<>>

(* A call has returned chunks for a text with an ordinary paragraph carried *)
(* over and a paragraph split into sentences.                              *)
C21_Witness ==
    /\ chunker.pc = "done"
    /\ Len(chunker.chunks) >= 3
    /\ \E n \in 1..Len(chunker.paragraphs) :
          StrLen(chunker.paragraphs[n]) > chunker.chunk_size
    /\ \E k \in 1..Len(chunker.chunks) : Len(ParagraphsOf(chunker.chunks[k])) >= 2

(* C22: no chunk that split_into_chunks returns is longer than chunk_size, *)
(* whatever the text: a sentence or a block with nowhere to break is cut   *)
(* to fit.                                                                 *)
C22_ChunkWithinSize ==
    chunker.pc = "done" =>
        \A k \in 1..Len(chunker.chunks) :
            StrLen(chunker.chunks[k]) <= chunker.chunk_size

(* The paragraph loop closes an ordinary chunk and begins the next one     *)
(* with an ordinary paragraph.                                             *)
ClosesOrdinaryChunk ==
    /\ chunker.pc = "para"
    /\ chunker'.pc = "para"
    /\ chunker.current_chunk # <<>>
    /\ chunker'.chunks = Append(chunker.chunks, JoinWith(chunker.current_chunk, "P"))

(* C23: whenever split_into_chunks closes an ordinary chunk and goes on    *)
(* with an ordinary paragraph, the chunk it begins starts with the last    *)
(* paragraph of the chunk it closed, however many paragraphs that chunk    *)
(* holds.                                                                  *)
C23_LastParagraphCarried ==
    [][ClosesOrdinaryChunk =>
           /\ Len(chunker'.current_chunk) >= 2
           /\ chunker'.current_chunk[1]
                  = chunker.current_chunk[Len(chunker.current_chunk)]]_vars

-----------------------------------------------------------------------------
(* PDFProcessor (utils/rag.py): the text of a PDF, page by page, cut into  *)
(* windows of chunk_size characters.  A page is the sequence of its        *)
(* characters; page numbers start at 0.                                    *)

MaxPages == 4      \* a PDF has at most this many pages
MaxWorkers == 3    \* max_workers is at most this

Max(a, b) == IF a >= b THEN a ELSE b

(* not chunk_text.strip() *)
IsBlank(t) == \A n \in 1..Len(t) : t[n] = " "

(* text[i:i + n] *)
Slice(text, i, n) == SubSeq(text, i + 1, Min(i + n, Len(text)))

(* list(range(0, stop, step)) for step > 0 *)
RangeFromZero(stop, step) ==
    [n \in 1..((stop + step - 1) \div step) |-> (n - 1) * step]

(* os.path.basename(pdf_path) *)
DocId == "doc.pdf"

(* Document(page_content=chunk_text, metadata=metadata) *)
ChunkDocument(chunk_text, page_num, i, chunk_size) ==
    [page_content |-> chunk_text,
     source |-> "doc.pdf",
     page |-> page_num,
     chunk |-> i \div chunk_size,
     id |-> <<DocId, "_p", page_num, "_c", i \div chunk_size>>,
     document_id |-> DocId]

(* PDFProcessor._chunk_text: range() raises ValueError for a step of 0 and *)
(* is empty for a negative step.                                           *)
ChunkText(text, page_num, chunk_size, chunk_overlap) ==
    LET step == chunk_size - chunk_overlap
        starts == IF step > 0 THEN RangeFromZero(Len(text), step) ELSE <<>>
        Kept(i) == ~IsBlank(Slice(text, i, chunk_size))
        kept == SelectSeq(starts, Kept)
    IN  [raised |-> step = 0,
         starts |-> starts,
         chunks |-> IF step = 0 THEN <<>>
                    ELSE [n \in 1..Len(kept) |->
                              ChunkDocument(Slice(text, kept[n], chunk_size),
                                            page_num, kept[n], chunk_size)]]

(* The loop over the pages start_page .. end_page - 1, shared by           *)
(* _process_pdf_sequential and _process_page_range: blank pages are        *)
(* skipped, an exception of _chunk_text ends the loop.                     *)
RECURSIVE ProcessPages(_, _, _, _, _, _)
ProcessPages(pages, page_num, end_page, chunk_size, chunk_overlap, page_documents) ==
    IF page_num >= end_page THEN [raised |-> FALSE, documents |-> page_documents]
    ELSE IF IsBlank(pages[page_num + 1])
    THEN ProcessPages(pages, page_num + 1, end_page, chunk_size, chunk_overlap,
                      page_documents)
    ELSE LET c == ChunkText(pages[page_num + 1], page_num, chunk_size, chunk_overlap)
         IN  IF c.raised THEN [raised |-> TRUE, documents |-> <<>>]
             ELSE ProcessPages(pages, page_num + 1, end_page, chunk_size,
                               chunk_overlap, page_documents \o c.chunks)

(* PDFProcessor._process_pdf_sequential *)
ProcessPdfSequential(pages, chunk_size, chunk_overlap) ==
    ProcessPages(pages, 0, Len(pages), chunk_size, chunk_overlap, <<>>)

(* PDFProcessor._process_page_range *)
ProcessPageRange(pages, start_page, end_page, chunk_size, chunk_overlap) ==
    ProcessPages(pages, start_page, end_page, chunk_size, chunk_overlap, <<>>)

(* pages_per_worker = max(1, total_pages // max_workers) *)
PagesPerWorker(total_pages, max_workers) == Max(1, total_pages \div max_workers)

(* A range that stops one page early. *)
MutEndPageShort(i, pages_per_worker, total_pages) ==
    Min(i + pages_per_worker, total_pages) - 1

(* end_page = min(i + pages_per_worker, total_pages) *)
EndPage(i, pages_per_worker, total_pages) == Min(i + pages_per_worker, total_pages)

(* The futures of the submit loop, in the order of submission. *)
SubmitAll(total_pages, max_workers) ==
    LET pages_per_worker == PagesPerWorker(total_pages, max_workers)
        starts == RangeFromZero(total_pages, pages_per_worker)
    IN  [n \in 1..Len(starts) |->
            [start_page |-> starts[n],
             end_page |-> EndPage(starts[n], pages_per_worker, total_pages),
             state |-> "pending", raised |-> FALSE, result |-> <<>>]]

(* _process_pdf_multithreaded up to the end of the submit loop. *)
MultithreadedBegin(pages, max_workers, chunk_size, chunk_overlap) ==
    LET futures == SubmitAll(Len(pages), max_workers)
    IN  [pc |-> IF futures = <<>> THEN "done" ELSE "collect",
         pages |-> pages, max_workers |-> max_workers,
         chunk_size |-> chunk_size, chunk_overlap |-> chunk_overlap,
         futures |-> futures, k |-> 1, documents |-> <<>>, overtaken |-> FALSE]

(* A worker thread runs _process_page_range for future f to its end;       *)
(* overtaken records that a future submitted earlier was still running.    *)
WorkerEffect(p, f) ==
    LET r == ProcessPageRange(p.pages, p.futures[f].start_page,
                              p.futures[f].end_page, p.chunk_size, p.chunk_overlap)
    IN  [p EXCEPT !.futures[f].state = "done",
                  !.futures[f].raised = r.raised,
                  !.futures[f].result = r.documents,
                  !.overtaken = \/ p.overtaken
                                \/ \E e \in 1..(f - 1) :
                                       p.futures[e].state = "pending"]

(* One pass of `for future in futures: documents.extend(future.result())`; *)
(* result() re-raises what the worker raised.                              *)
CollectEffect(p) ==
    IF p.futures[p.k].raised THEN [p EXCEPT !.pc = "raised", !.documents = <<>>]
    ELSE [p EXCEPT !.documents = p.documents \o p.futures[p.k].result,
                   !.k = p.k + 1,
                   !.pc = IF p.k = Len(p.futures) THEN "done" ELSE "collect"]

(* Bounds of the processor's inputs. *)
PageTexts == {<<" ">>, <<"d", " ", " ", "e", "f">>}

RECURSIVE SeqsUpTo(_, _)
SeqsUpTo(S, n) ==
    IF n = 0 THEN {<<>>}
    ELSE SeqsUpTo(S, n - 1)
         \cup {Append(q, x) : q \in {r \in SeqsUpTo(S, n - 1) : Len(r) = n - 1}, x \in S}

PdfDocuments == SeqsUpTo(PageTexts, MaxPages)

ProcessorConfigs ==
    {[chunk_size |-> 2, chunk_overlap |-> 0], [chunk_size |-> 3, chunk_overlap |-> 1],
     [chunk_size |-> 2, chunk_overlap |-> 2]}

(* _process_pdf_multithreaded(pdf_document, doc_id, pdf_path, max_workers) *)
(* is called on a PDFProcessor(chunk_size, chunk_overlap).                 *)
ProcessPdfMultithreaded(pages, max_workers, config) ==
    /\ processor.pc \in {"idle", "done", "raised"}
    /\ processor' = MultithreadedBegin(pages, max_workers, config.chunk_size,
                                       config.chunk_overlap)
    /\ UNCHANGED <<documents, doc_ids, index, disk, cache, now, alive, ret,
                   removed, crash, faults, chunker, threads>>

(* A worker of the pool finishes the page range of one future. *)
WorkerFinish(f) ==
    /\ processor.pc = "collect"
    /\ f \in 1..Len(processor.futures)
    /\ processor.futures[f].state = "pending"
    /\ processor' = WorkerEffect(processor, f)
    /\ UNCHANGED <<documents, doc_ids, index, disk, cache, now, alive, ret,
                   removed, crash, faults, chunker, threads>>

(* The calling thread takes the result of the next future, which blocks    *)
(* until that future is done.                                              *)
Collect ==
    /\ processor.pc = "collect"
    /\ processor.futures[processor.k].state = "done"
    /\ processor' = CollectEffect(processor)
    /\ UNCHANGED <<documents, doc_ids, index, disk, cache, now, alive, ret,
                   removed, crash, faults, chunker, threads>>

NextProcessor ==
    \/ \E pages \in PdfDocuments, max_workers \in 1..MaxWorkers,
          config \in ProcessorConfigs :
          ProcessPdfMultithreaded(pages, max_workers, config)
    \/ \E f \in 1..MaxPages : WorkerFinish(f)
    \/ Collect

SpecProcessor == Init /\ [][NextProcessor]_vars

-----------------------------------------------------------------------------
(* improved_chunking (utils/pdf_parser.py).  A text is the sequence of its *)
(* characters: "N" is a newline, " " a space, "#" the heading marker, and  *)
(* any other token a letter.                                               *)

MaxTextLen == 7    \* a text given to improved_chunking has at most this many characters

(* \s *)
IsSpace(ch) == ch \in {" ", "N"}

(* A scan that skips nothing. *)
MutSkipNothing(text, p) == p

(* The first position from p on that holds no whitespace (Len + 1 if none). *)
RECURSIVE SkipSpace(_, _)
SkipSpace(text, p) ==
    IF p <= Len(text) /\ IsSpace(text[p]) THEN SkipSpace(text, p + 1) ELSE p

(* The first position from p on that holds no "#". *)
RECURSIVE SkipHashes(_, _)
SkipHashes(text, p) ==
    IF p <= Len(text) /\ text[p] = "#" THEN SkipHashes(text, p + 1) ELSE p

(* The lookahead (?=\n\s*#+\s+) matches at position p. *)
HeadingAt(text, p) ==
    /\ text[p] = "N"
    /\ LET q == SkipSpace(text, p + 1)
           r == SkipHashes(text, q)
       IN  /\ r > q
           /\ r <= Len(text)
           /\ IsSpace(text[r])

(* re.split(r'(?=\n\s*#+\s+)', text): a cut before every position the     *)
(* lookahead matches at, the piece before a match at the very start being  *)
(* the empty string.                                                       *)
RECURSIVE SplitSections(_, _, _)
SplitSections(text, p, section) ==
    IF p > Len(text) THEN <<section>>
    ELSE IF HeadingAt(text, p)
    THEN <<section>> \o SplitSections(text, p + 1, <<text[p]>>)
    ELSE SplitSections(text, p + 1, Append(section, text[p]))

Sections(text) == SplitSections(text, 1, <<>>)

(* section.split("\n\n") *)
RECURSIVE SplitBlankLines(_, _)
SplitBlankLines(rest, para) ==
    IF rest = <<>> THEN <<para>>
    ELSE IF Len(rest) >= 2 /\ rest[1] = "N" /\ rest[2] = "N"
    THEN <<para>> \o SplitBlankLines(SubSeq(rest, 3, Len(rest)), <<>>)
    ELSE SplitBlankLines(Tail(rest), Append(para, Head(rest)))

(* "\n\n".join(current_chunk) *)
RECURSIVE JoinBlankLines(_)
JoinBlankLines(parts) ==
    IF parts = <<>> THEN <<>>
    ELSE IF Len(parts) = 1 THEN parts[1]
    ELSE parts[1] \o <<"N", "N">> \o JoinBlankLines(Tail(parts))

(* {"source": "section", "length": len(chunk_text)} *)
SectionMetadata(chunk_text) == [source |-> "section", length |-> Len(chunk_text)]

(* `for para in paragraphs` and the code after it: the chunks of one       *)
(* oversized section.                                                      *)
RECURSIVE PackParagraphs(_, _, _, _, _)
PackParagraphs(paragraphs, n, chunk_size, current_chunk, current_length) ==
    IF n > Len(paragraphs)
    THEN IF current_chunk # <<>> THEN <<JoinBlankLines(current_chunk)>> ELSE <<>>
    ELSE LET para == paragraphs[n]
         IN  IF current_length + Len(para) > chunk_size /\ current_chunk # <<>>
             THEN <<JoinBlankLines(current_chunk)>>
                  \o PackParagraphs(paragraphs, n + 1, chunk_size, <<para>>, Len(para))
             ELSE PackParagraphs(paragraphs, n + 1, chunk_size,
                                 Append(current_chunk, para),
                                 current_length + Len(para))

(* len(section) > chunk_size *)
SectionTooLarge(section, chunk_size) == Len(section) > chunk_size

(* The chunks of one section. *)
SectionChunks(section, chunk_size) ==
    IF SectionTooLarge(section, chunk_size)
    THEN PackParagraphs(SplitBlankLines(section, <<>>), 1, chunk_size, <<>>, 0)
    ELSE <<section>>

(* improved_chunking(text, chunk_size): (chunks, metadata) *)
ImprovedChunking(text, chunk_size) ==
    LET sections == Sections(text)
        chunks == Concat([n \in 1..Len(sections) |->
                             SectionChunks(sections[n], chunk_size)])
    IN  [chunks |-> chunks,
         metadata |-> [n \in 1..Len(chunks) |-> SectionMetadata(chunks[n])]]

(* Bounds of improved_chunking's inputs. *)
TextChars == {"#", " ", "N", "a"}
Texts == SeqsUpTo(TextChars, MaxTextLen)
SectionSizes == {1, 3, 5}

(* A call of improved_chunking about to be made. *)
InitImproved ==
    /\ documents = EmptyDocs
    /\ doc_ids = <<>>
    /\ index = <<>>
    /\ disk = MissingFile
    /\ cache = {}
    /\ now = 0
    /\ alive = TRUE
    /\ \E text \in Texts, chunk_size \in SectionSizes :
          ret = [op |-> "call", text |-> text, chunk_size |-> chunk_size]
    /\ removed = {}
    /\ crash = NoCrash
    /\ faults = 0
    /\ chunker = IdleChunker
    /\ processor = IdleProcessor
    /\ threads = IdleThreads

(* improved_chunking(text, chunk_size) returns. *)
ImprovedChunkingCall ==
    /\ ret.op = "call"
    /\ LET r == ImprovedChunking(ret.text, ret.chunk_size)
       IN  ret' = [op |-> "improved_chunking", text |-> ret.text,
                   chunk_size |-> ret.chunk_size,
                   chunks |-> r.chunks, metadata |-> r.metadata]
    /\ UNCHANGED <<documents, doc_ids, index, disk, cache, now, alive,
                   removed, crash, faults, chunker, processor, threads>>

NextImproved == ImprovedChunkingCall

SpecImproved == InitImproved /\ [][NextImproved]_vars

(* C25: improved_chunking returns as many metadata entries as chunks, and  *)
(* the entry at a chunk's position names the chunk (a chunk_id or a        *)
(* sequence index) and records the length of the chunk's text.             *)
C25_MetadataIdentifiesChunk ==
    ret.op = "improved_chunking" =>
        /\ Len(ret.metadata) = Len(ret.chunks)
        /\ \A n \in 1..Len(ret.chunks) :
              /\ ret.metadata[n].length = Len(ret.chunks[n])
              /\ \/ "chunk_id" \in DOMAIN ret.metadata[n]
                 \/ "sequence_index" \in DOMAIN ret.metadata[n]

(* A heading begins at the newline at position p: blank space, one or     *)
(* more "#", then blank space.                                             *)
HeadingStartsAt(text, p) ==
    /\ text[p] = "N"
    /\ \E q \in (p + 1)..Len(text), r \in (p + 2)..Len(text) :
          /\ q < r
          /\ \A x \in (p + 1)..(q - 1) : text[x] \in {" ", "N"}
          /\ \A x \in q..(r - 1) : text[x] = "#"
          /\ text[r] \in {" ", "N"}

(* The sections of a text: it is cut before every heading. *)
RECURSIVE SectionsFrom(_, _)
SectionsFrom(text, from) ==
    LET cuts == {p \in (from + 1)..Len(text) : HeadingStartsAt(text, p)}
    IN  IF cuts = {} THEN <<SubSeq(text, from, Len(text))>>
        ELSE LET c == CHOOSE p \in cuts : \A x \in cuts : p <= x
             IN  <<SubSeq(text, from, c - 1)>> \o SectionsFrom(text, c)

HeadingSections(text) ==
    IF text # <<>> /\ HeadingStartsAt(text, 1)
    THEN <<<<>>>> \o SectionsFrom(text, 1)
    ELSE SectionsFrom(text, 1)

(* The chunks from number k on are the sections from number n on, each     *)
(* section of at most chunk_size characters as one chunk and each longer   *)
(* section as one or more chunks that, joined by blank lines, give it back. *)
RECURSIVE SectionsKept(_, _, _, _, _)
SectionsKept(chunks, k, sections, n, chunk_size) ==
    IF n > Len(sections) THEN k = Len(chunks) + 1
    ELSE IF Len(sections[n]) <= chunk_size
    THEN /\ k <= Len(chunks)
         /\ chunks[k] = sections[n]
         /\ SectionsKept(chunks, k + 1, sections, n + 1, chunk_size)
    ELSE \E m \in 1..(Len(chunks) - k + 1) :
            /\ JoinBlankLines(SubSeq(chunks, k, k + m - 1)) = sections[n]
            /\ SectionsKept(chunks, k + m, sections, n + 1, chunk_size)

-----------------------------------------------------------------------------
(* Properties of the store under re-adds and failures (SpecCore), and of   *)
(* the upload handler under concurrent requests.                           *)

(* The raw hits of a search, before any is discarded. *)
RawHits(q, k) == IndexSearch(index, q, Min(k, Len(index)))

(* C27: after any add_document calls (as many embeddings as chunks) and    *)
(* remove_document calls, an id removed and added again or added while     *)
(* live included, every result of search comes from a raw hit at a         *)
(* position i, carries the chunk that was added with the vector stored at  *)
(* i and the id stored for i, and that id is in the store; raw hits are    *)
(* either discarded or mapped so, never mapped to another chunk.           *)
C27_HitsPairedWithOwnChunk ==
    \A q \in Queries, k \in TopKs :
        LET kept == LiveHits(q, k)
            results == Search(q, k, None)
        IN  /\ Len(results) = Len(kept)
            /\ \A n \in 1..Len(kept) :
                  /\ results[n].doc_id = doc_ids[kept[n].idx + 1]
                  /\ results[n].doc_id \in DOMAIN documents
                  /\ Embed(results[n].chunk) = index[kept[n].idx + 1]
                  /\ \E m \in 1..Len(RawHits(q, k)) : RawHits(q, k)[m] = kept[n]

(* A search has returned a chunk of a document from the position of its   *)
(* latest add while the index still holds the vector of an earlier add of  *)
(* the same id.                                                            *)
C27_Witness ==
    /\ ret.op = "search"
    /\ ret.value # <<>>
    /\ \E q \in Queries :
          /\ ret.value = Search(q, MaxTopK, None)
          /\ \E n \in 1..Len(LiveHits(q, MaxTopK)) :
                \E i \in 0..(LiveHits(q, MaxTopK)[n].idx - 1) :
                    /\ doc_ids[i + 1] = ret.value[n].doc_id
                    /\ i \notin LivePositions

(* C28: an add_document call that fails part-way (the embeddings cannot be *)
(* put into the index) leaves the store as it was before the call: if      *)
(* document_id had no record it has none, has_document(document_id) is     *)
(* false and get_all_documents does not list it.                           *)
C28_FailedAddLeavesNoRecord ==
    [][(ret'.op = "add" /\ ret'.outcome = "raised")
          => /\ UNCHANGED <<documents, doc_ids, index, disk>>
             /\ ~HasDocument(ret'.arg)
                   => /\ ~HasDocumentIn(documents', ret'.arg)
                      /\ \A e \in GetAllDocuments' : e.id # ret'.arg]_vars

(* A request thread enters upload_file and runs it up to the has_document  *)
(* test; it answers at once when the file is refused or already known.     *)
ThreadReceive(t, req) ==
    /\ alive
    /\ threads[t].pc \in {"idle", "responded"}
    /\ now < MaxTime
    /\ now' = now + 1
    /\ threads' = [threads EXCEPT ![t] =
                      IF UploadCheck(documents, req) # None
                      THEN [pc |-> "responded", req |-> Some(req),
                            response |-> UploadCheck(documents, req)]
                      ELSE [pc |-> "checked", req |-> Some(req), response |-> None]]
    /\ UNCHANGED <<documents, doc_ids, index, disk, cache, alive, ret,
                   removed, crash, faults, chunker, processor>>

(* A request thread that passed the test extracts, embeds and calls        *)
(* add_document, then answers.                                             *)
ThreadStore(t, modelOk) ==
    /\ alive
    /\ threads[t].pc = "checked"
    /\ LET u == UploadStore(documents, cache, threads[t].req[1], now, modelOk)
       IN  /\ documents' = u.documents
           /\ cache' = u.cache
           /\ threads' = [threads EXCEPT ![t].pc = "responded",
                                         ![t].response = Some(u.response)]
    /\ UNCHANGED <<doc_ids, index, disk, now, alive, ret,
                   removed, crash, faults, chunker, processor>>

NextThreads ==
    \/ \E t \in Threads, req \in Requests : ThreadReceive(t, req)
    \/ \E t \in Threads, modelOk \in BOOLEAN : ThreadStore(t, modelOk)

SpecThreads == Init /\ [][NextThreads]_vars

(* The thread has called add_document for the bytes of its request. *)
ReachedAddDocument(t) ==
    /\ threads[t].response # None
    /\ threads[t].response[1].stage \in {"store", "done"}

-----------------------------------------------------------------------------
(* PDFProcessor._chunk_text as a function of its arguments. *)

MaxPageLen == 6    \* a page text given to _chunk_text has at most this many characters

PageChars == {"a", " "}
ChunkTextSizes == 1..4
ChunkTextOverlaps == 0..3

(* A call of _chunk_text about to be made. *)
InitChunkText ==
    /\ documents = EmptyDocs
    /\ doc_ids = <<>>
    /\ index = <<>>
    /\ disk = MissingFile
    /\ cache = {}
    /\ now = 0
    /\ alive = TRUE
    /\ \E text \in SeqsUpTo(PageChars, MaxPageLen), chunk_size \in ChunkTextSizes,
          chunk_overlap \in ChunkTextOverlaps :
          ret = [op |-> "call", text |-> text, chunk_size |-> chunk_size,
                 chunk_overlap |-> chunk_overlap]
    /\ removed = {}
    /\ crash = NoCrash
    /\ faults = 0
    /\ chunker = IdleChunker
    /\ processor = IdleProcessor
    /\ threads = IdleThreads

(* self._chunk_text(text, 0, doc_id, pdf_path) returns or raises. *)
ChunkTextCall ==
    /\ ret.op = "call"
    /\ LET r == ChunkText(ret.text, 0, ret.chunk_size, ret.chunk_overlap)
       IN  ret' = [op |-> "_chunk_text", text |-> ret.text,
                   chunk_size |-> ret.chunk_size, chunk_overlap |-> ret.chunk_overlap,
                   raised |-> r.raised, starts |-> r.starts, chunks |-> r.chunks]
    /\ UNCHANGED <<documents, doc_ids, index, disk, cache, now, alive,
                   removed, crash, faults, chunker, processor, threads>>

NextChunkText == ChunkTextCall

SpecChunkText == InitChunkText /\ [][NextChunkText]_vars

(* C30: for chunk_size > chunk_overlap >= 0, _chunk_text returns windows   *)
(* that together hold every character of the page that is not whitespace,  *)
(* and no two chunks of the page have the same id or the same chunk        *)
(* number.                                                                 *)
C30_WindowsCoverAndIdsDiffer ==
    (ret.op = "_chunk_text" /\ ret.chunk_size > ret.chunk_overlap)
        => /\ ~ret.raised
           /\ \A x \in 1..Len(ret.text) :
                 ret.text[x] # " " =>
                     \E n \in 1..Len(ret.starts) :
                         /\ ret.starts[n] < x
                         /\ x <= ret.starts[n] + ret.chunk_size
                         /\ \E m \in 1..Len(ret.chunks) :
                               ret.chunks[m].page_content
                                   = Slice(ret.text, ret.starts[n], ret.chunk_size)
           /\ \A n, m \in 1..Len(ret.chunks) :
                 n # m => /\ ret.chunks[n].id # ret.chunks[m].id
                          /\ ret.chunks[n].chunk # ret.chunks[m].chunk

====
